---------------------------- MODULE Spec2Model ----------------------------
(***************************************************************************)
(* Model of the WordPress MCP bridge (kungtekno/wp-mcp):                   *)
(*   - WordPressAuthenticationManager  (src/auth/authentication-manager)   *)
(*   - RateLimiter and WordPressHttpClient (src/auth/http-client.ts)       *)
(*   - ConfigManager / WordPressClient / WordPressMCPServer (tool path)    *)
(*                                                                         *)
(* Time is Date.now() in milliseconds.  A message is a sequence of string  *)
(* tokens; the tokens PW, USER and BASIC stand for the literal configured  *)
(* application password, the configured username and a "Basic <base64>"    *)
(* credential string occurring inside a message.                           *)
(***************************************************************************)
EXTENDS Integers, Sequences, FiniteSets, TLC

VARIABLES
    now,            \* Date.now()
    config,         \* WordPressAuthenticationManager.config
    authState,      \* WordPressAuthenticationManager.authState
    lastAuthCheck,  \* WordPressAuthenticationManager.lastAuthCheck
    requests,       \* RateLimiter.requests (timestamps)
    retryCount,     \* WordPressHttpClient.retryCount
    pc,             \* per call: position of the call in the axios chain
    sent,           \* per call: number of times it was put on the wire
    header,         \* per call: Authorization header of the last attempt
    respLog,        \* per call: the statuses received for it, in order
    alone,          \* per call: no other call was in progress during it
    outcome,        \* the last settlement handed to a caller
    admits,         \* limiter history: times of the latest admissions
    lastCheck,      \* limiter history: the checkLimit() made by the last step
    everRejected,   \* limiter history: some checkLimit() was rejected
    mgr,            \* construction: "absent" | "live" | "rejected"
    ctorError,      \* construction: the error thrown by the constructor
    security,       \* construction: result of validateSecurity()
    srv,            \* tool path: "new" | "constructed" | "serving"
    rawConfig,      \* tool path: the document handed to the loader
    cmConfig,       \* tool path: ConfigManager.config (<<>> is null)
    wpClient,       \* tool path: WordPressMCPServer.wordpressClient
    toolsListed,    \* tool path: the last ListTools answer was non-empty
    wire,           \* tool path: schemes of the URLs requests were sent to
    toolAnswer,     \* tool path: the answer to the last MCP request
    mgrOp,          \* manager: the last operation called on it and its result
    env,            \* process.env as the WordPressConfigLoader reads it
    ldr,            \* loader: what the last loadFromEnvironment() did
    svc,            \* WordPressAuthService: its fields
    svcOp,          \* service: the last operation called on it and its result
    sends,          \* service: the latest requests put on the wire
    tst,            \* WordPressConnectionTester.testConnection(): its progress
    rateLimitState, \* WordPressClient.rateLimitState
    wpAdmits,       \* WordPressClient: times of the latest admissions
    toolCall        \* WordPressTools.callTool(): the last call and its result

httpVars == <<now, config, authState, lastAuthCheck, requests, retryCount,
              pc, sent, header, respLog, alone, outcome>>
limVars == <<admits, lastCheck, everRejected>>
ctorVars == <<mgr, ctorError, security>>
toolVars == <<srv, rawConfig, cmConfig, wpClient, toolsListed, wire, toolAnswer>>
authVars == <<mgrOp>>
ldrVars == <<env, ldr>>
svcVars == <<svc, svcOp, sends>>
tstVars == <<tst>>
wpcVars == <<rateLimitState, wpAdmits, toolCall>>
extVars == <<authVars, ldrVars, svcVars, tstVars, wpcVars>>
vars == <<httpVars, limVars, ctorVars, toolVars, extVars>>

---------------------------------------------------------------------------
(* Bounds of the model *)

NumCalls == 2          \* calls in progress at once on one client
MaxLimit == 2          \* largest requests_per_minute tried
TicksPerWindow == 3    \* clock granularity: WINDOW_MS \div TicksPerWindow
MaxTicks == 4          \* the clock stops after this many ticks
MaxSent == 3           \* attempts of one call that are explored
MaxSvcTicks == 2       \* the clock of the service model stops after these

(* Program constants *)

WINDOW_MS == 60000
AUTH_CACHE_DURATION == 300000
TIMEOUT_WARN_MS == 60000
DEFAULT_TIMEOUT == 30000

Calls == 1..NumCalls
TickMs == WINDOW_MS \div TicksPerWindow

Null == <<>>
Some(x) == <<x>>
NoStatus == 0 - 1      \* an undefined httpStatus / response status
NoTime == 0 - 1        \* a null Date

---------------------------------------------------------------------------
(* Configuration values *)

\* A site URL is the pair of what new URL() would extract from it; the
\* scheme "none" is a string new URL() throws on.
Schemes == {"https", "http", "ftp", "none"}
Hosts == {"example.com", "localhost", "127.0.0.1"}

\* A password is abstracted to the number of its characters per class,
\* which is all isValidApplicationPassword reads.
GoodPassword == [alnum |-> 24, space |-> 5, other |-> 0]
EmptyPassword == [alnum |-> 0, space |-> 0, other |-> 0]
PasswordLength(password) == password.alnum + password.space + password.other
Passwords == {GoodPassword,
              [alnum |-> 24, space |-> 0, other |-> 0],
              [alnum |-> 23, space |-> 5, other |-> 0],
              [alnum |-> 23, space |-> 0, other |-> 1]}

RateLimits == {Null} \cup
              {Some([requests_per_minute |-> n, burst_limit |-> 10]) : n \in 1..MaxLimit}

ValidConfig(rl) ==
    [site_url |-> [scheme |-> "https", host |-> "example.com"],
     username |-> "admin",
     app_password |-> GoodPassword,
     verify_ssl |-> TRUE,
     timeout |-> DEFAULT_TIMEOUT,
     rate_limit |-> rl]


---------------------------------------------------------------------------
(* Messages and errors *)

PW == "<app_password>"
USER == "<username>"
BASIC == "Basic <base64>"
TXT == "text"

\* error.response.data.message as the server may send it (Null: absent)
DataMessages == {Null, Some(<<TXT, PW, BASIC>>)}
\* error.message of a transport failure
TransportMessage == <<TXT, USER>>

\* What handleResponseError reads of the rejection it is given:
\* error.response?.status, error.response?.data?.message, error.code and
\* error.message.
AxiosStatusCode(status) ==
    IF status >= 500 THEN "ERR_BAD_RESPONSE"
    ELSE IF status >= 400 THEN "ERR_BAD_REQUEST" ELSE "undefined"

StatusError(status, data) ==
    [status |-> status, data |-> data, code |-> AxiosStatusCode(status),
     message |-> <<"Request failed with status code", ToString(status)>>]

TransportError(code, msg) ==
    [status |-> NoStatus, data |-> Null, code |-> code, message |-> msg]

\* A WordPressAuthError thrown inside the chain: it has no response and
\* no code.
LocalError(msg) ==
    [status |-> NoStatus, data |-> Null, code |-> "undefined", message |-> msg]

\* Statuses whose handling reads the response body, and those where it
\* does not
BodyStatuses == {403, 404, 500, 503}
PlainStatuses == {401, 429}
FailureStatuses == BodyStatuses \cup PlainStatuses
TransportCodes == {"ENOTFOUND", "ECONNREFUSED", "ECONNABORTED", "ETIMEDOUT",
                   "CERT_HAS_EXPIRED", "UNABLE_TO_VERIFY_LEAF_SIGNATURE"}

Failures ==
    {StatusError(s, d) : s \in BodyStatuses, d \in DataMessages} \cup
    {StatusError(s, Null) : s \in PlainStatuses} \cup
    {TransportError(c, TransportMessage) : c \in TransportCodes}

AuthErrorType == {"INVALID_CREDENTIALS", "UNAUTHORIZED", "FORBIDDEN",
                  "NETWORK_ERROR", "TIMEOUT", "INVALID_URL", "SSL_ERROR",
                  "RATE_LIMITED", "UNKNOWN_ERROR"}

WordPressAuthError(type, message, httpStatus) ==
    [state |-> "rejected", type |-> type, message |-> message,
     httpStatus |-> httpStatus]

Fulfilled(status) ==
    [state |-> "fulfilled", type |-> "none", message |-> <<>>,
     httpStatus |-> status]

Pending ==
    [state |-> "pending", type |-> "none", message |-> <<>>,
     httpStatus |-> NoStatus]

---------------------------------------------------------------------------
(* WordPressAuthenticationManager *)

Base64(username, password) == [b64 |-> <<username, password>>]

generateAuthHeader(cfg) ==
    [scheme |-> "Basic", token |-> Base64(cfg.username, cfg.app_password)]

EmptyAuthState ==
    [isAuthenticated |-> FALSE, lastVerified |-> NoTime, credentials |-> Null]

\* Mutant: the credentials are stored but the flag is left unset
authenticateFlagUnset(cfg, t) ==
    [isAuthenticated |-> FALSE,
     lastVerified |-> t,
     credentials |-> Some([username |-> cfg.username,
                           password |-> generateAuthHeader(cfg).token])]

\* authenticate(): the state it stores (lastAuthCheck becomes t as well)
authenticate(cfg, t) ==
    [isAuthenticated |-> TRUE,
     lastVerified |-> t,
     credentials |-> Some([username |-> cfg.username,
                           password |-> generateAuthHeader(cfg).token])]

\* Mutant: the flag expires with the cache
isAuthenticatedWithExpiry(as, lac, t) ==
    as.isAuthenticated /\ lac # NoTime /\ t - lac < AUTH_CACHE_DURATION

\* isAuthenticated(): the flag outlives the cache window
isAuthenticated(as, lac, t) ==
    IF ~as.isAuthenticated THEN FALSE
    ELSE IF lac # NoTime /\ t - lac < AUTH_CACHE_DURATION THEN TRUE
    ELSE as.isAuthenticated

\* getAuthorizationHeader(): Null stands for the UNAUTHORIZED throw
getAuthorizationHeader(as) ==
    IF as.credentials = Null THEN Null
    ELSE Some([scheme |-> "Basic", token |-> as.credentials[1].password])

SanitizeToken(tok) ==
    IF tok = USER THEN "[USERNAME]"
    ELSE IF tok = PW THEN "[PASSWORD]"
    ELSE IF tok = BASIC THEN "Basic [CREDENTIALS]"
    ELSE tok

sanitizeErrorMessage(msg) == [i \in 1..Len(msg) |-> SanitizeToken(msg[i])]


---------------------------------------------------------------------------
(* RateLimiter *)

\* Mutant: a timestamp exactly one window old is kept
InWindowInclusive(time, windowStart) == time >= windowStart

InWindow(time, windowStart) == time > windowStart

Prune(reqs, t) == SelectSeq(reqs, LAMBDA time : InWindow(time, t - WINDOW_MS))

\* Mutant: the limit test is off by one
OverLimitOffByOne(reqs, limit) == Len(reqs) > limit

OverLimit(reqs, limit) == Len(reqs) >= limit

Ceil1000(ms) == (ms + 999) \div 1000

RateLimitMessage(reqs, t) ==
    <<"Rate limit exceeded. Please wait",
      ToString(Ceil1000(WINDOW_MS - (t - reqs[1]))), "seconds.">>

\* Mutant: a rejected call is recorded as well
checkLimitRecordsRejected(reqs, limit, t) ==
    LET pruned == Prune(reqs, t)
    IN  IF OverLimit(pruned, limit)
        THEN [admitted |-> FALSE, requests |-> Append(pruned, t),
              error |-> "RATE_LIMITED",
              message |-> RateLimitMessage(pruned, t)]
        ELSE [admitted |-> TRUE, requests |-> Append(pruned, t),
              error |-> "none", message |-> <<>>]

\* Mutant: an admitted call is not recorded
checkLimitWithoutRecord(reqs, limit, t) ==
    LET pruned == Prune(reqs, t)
    IN  IF OverLimit(pruned, limit)
        THEN [admitted |-> FALSE, requests |-> pruned,
              error |-> "RATE_LIMITED",
              message |-> RateLimitMessage(pruned, t)]
        ELSE [admitted |-> TRUE, requests |-> pruned,
              error |-> "none", message |-> <<>>]

\* checkLimit() at time t with the stored timestamps reqs: whether the call
\* is admitted, the timestamps stored afterwards and, on rejection, the
\* message of the RATE_LIMITED error thrown
checkLimit(reqs, limit, t) ==
    LET pruned == Prune(reqs, t)
    IN  IF OverLimit(pruned, limit)
        THEN [admitted |-> FALSE, requests |-> pruned,
              error |-> "RATE_LIMITED",
              message |-> RateLimitMessage(pruned, t)]
        ELSE [admitted |-> TRUE, requests |-> Append(pruned, t),
              error |-> "none", message |-> <<>>]

---------------------------------------------------------------------------
(* WordPressHttpClient *)

\* Mutant: two retries are allowed
MayRetryTwice(count) == count < 2

MayRetry(count) == count < 1

\* Mutant: a 429 is retried like a 401
IsAuthFailureOrThrottled(status) == status \in {401, 429}

IsAuthFailure(status) == status = 401

\* Mutant: only status 500 counts as a server error
IsServerErrorOnly500(status) == status = 500

IsServerError(status) == status # NoStatus /\ status >= 500

IsClientError(status) == status # NoStatus /\ status >= 400

DataOr(err, fallback) == IF err.data # Null THEN err.data[1] ELSE <<fallback>>

\* handleResponseError for every rejection but a 401 response
ClassifyError(err) ==
    IF err.status = 403 THEN
        WordPressAuthError("FORBIDDEN",
            DataOr(err, "Access forbidden. Check user permissions."), 403)
    ELSE IF err.status = 429 THEN
        WordPressAuthError("RATE_LIMITED",
            <<"Rate limit exceeded by WordPress server">>, 429)
    ELSE IF err.code \in {"ECONNABORTED", "ETIMEDOUT"} THEN
        WordPressAuthError("TIMEOUT", <<"Request timed out">>, NoStatus)
    ELSE IF err.code \in {"CERT_HAS_EXPIRED", "UNABLE_TO_VERIFY_LEAF_SIGNATURE"} THEN
        WordPressAuthError("SSL_ERROR", <<"SSL certificate error.">>, NoStatus)
    ELSE IF IsServerError(err.status) THEN
        WordPressAuthError("NETWORK_ERROR",
            <<"WordPress server error", ToString(err.status)>>
                \o DataOr(err, "Internal server error"), err.status)
    ELSE IF IsClientError(err.status) THEN
        WordPressAuthError("UNKNOWN_ERROR",
            <<"WordPress API error", ToString(err.status)>>
                \o DataOr(err, "Bad request"), err.status)
    ELSE
        WordPressAuthError("UNKNOWN_ERROR",
            sanitizeErrorMessage(err.message), err.status)

\* handleRequestError: the rejection handler registered with the request
\* interceptor.  axios calls it only when an earlier link of the chain
\* rejected; the interceptor is the first link, so no rejection reaches it.
handleRequestError(err) ==
    IF err.code \in {"ENOTFOUND", "ECONNREFUSED"} THEN
        WordPressAuthError("NETWORK_ERROR",
            <<"Cannot connect to WordPress site">>, NoStatus)
    ELSE IF err.code = "ETIMEDOUT" THEN
        WordPressAuthError("TIMEOUT",
            <<"Request timed out while connecting to WordPress">>, NoStatus)
    ELSE
        WordPressAuthError("UNKNOWN_ERROR",
            sanitizeErrorMessage(err.message), NoStatus)

NoHeader == [scheme |-> "none", token |-> Base64("", GoodPassword)]

NoCheck == [made |-> FALSE, admitted |-> FALSE, error |-> "none", prior |-> <<>>]

NoOutcome ==
    [settled |-> FALSE, result |-> Pending, log |-> <<>>, sent |-> 0,
     thrown |-> "none", alone |-> TRUE, retryBefore |-> 0,
     authBefore |-> EmptyAuthState]

InProgress(r) == pc[r] # "idle"

\* Mutant: a response is delivered between two microtasks of another call
DeliveredBetweenMicrotasks == TRUE

\* No call is between two microtasks of its chain: the condition under
\* which the event loop delivers a network response.
Quiescent == \A r \in Calls : pc[r] \in {"idle", "inflight"}

\* get / post / put / delete / patch: the caller starts the axios chain.
\* Call slots are interchangeable, so a new call takes the lowest free one.
Issue(r) ==
    /\ pc[r] = "idle"
    /\ \A q \in Calls : q < r => pc[q] # "idle"
    /\ pc' = [pc EXCEPT ![r] = "checkLimit"]
    /\ alone' = [q \in Calls |->
                    IF q = r THEN \A p \in Calls \ {r} : ~InProgress(p)
                    ELSE IF InProgress(q) THEN FALSE ELSE alone[q]]
    /\ UNCHANGED <<now, config, authState, lastAuthCheck, requests,
                   retryCount, sent, header, respLog>>
    /\ outcome' = NoOutcome

\* The promise returned to the caller settles with res: the outcome is
\* handed over (with what the call went through) and the slot is free again.
\* outcome describes the settlement made by the last step, if it made one.
\* log is the call's response log and th the type of the error thrown
\* inside the chain; retryBefore and authBefore are the retry counter and
\* the authentication state as the settling handler found them.
Settle(r, res, log, th) ==
    /\ outcome' = [settled |-> TRUE, result |-> res, log |-> log, sent |-> sent[r],
                   thrown |-> th, alone |-> alone[r],
                   retryBefore |-> retryCount, authBefore |-> authState]
    /\ pc' = [pc EXCEPT ![r] = "idle"]
    /\ sent' = [sent EXCEPT ![r] = 0]
    /\ header' = [header EXCEPT ![r] = NoHeader]
    /\ respLog' = [respLog EXCEPT ![r] = <<>>]
    /\ alone' = [alone EXCEPT ![r] = TRUE]

\* handleResponseError, reached from the response interceptor's rejection
\* handler with rejection err of call r (log: the call's responses so far,
\* th: the type of the error if it was thrown locally)
handleResponseError(r, err, log, th) ==
    IF IsAuthFailure(err.status) THEN
        IF MayRetry(retryCount) THEN
            \* invalidateAuth(); retryCount++; authenticate(); request(config)
            /\ retryCount' = retryCount + 1
            /\ authState' = authenticate(config, now)
            /\ lastAuthCheck' = now
            /\ pc' = [pc EXCEPT ![r] = "checkLimit"]
            /\ respLog' = [respLog EXCEPT ![r] = log]
            /\ UNCHANGED <<sent, header, alone>>
            /\ outcome' = NoOutcome
        ELSE
            /\ authState' = EmptyAuthState
            /\ lastAuthCheck' = NoTime
            /\ Settle(r, WordPressAuthError("UNAUTHORIZED",
                          <<"Invalid credentials or expired authentication">>, 401),
                      log, th)
            /\ UNCHANGED retryCount
    ELSE
        /\ Settle(r, ClassifyError(err), log, th)
        /\ UNCHANGED <<retryCount, authState, lastAuthCheck>>

\* Request interceptor, first part: RateLimiter.checkLimit()
CheckLimit(r) ==
    /\ pc[r] = "checkLimit"
    /\ IF config.rate_limit = Null THEN
           /\ pc' = [pc EXCEPT ![r] = "ensureAuth"]
           /\ UNCHANGED <<requests, retryCount, authState, lastAuthCheck,
                          sent, header, respLog, alone>>
           /\ outcome' = NoOutcome
       ELSE LET chk == checkLimit(requests,
                                  config.rate_limit[1].requests_per_minute, now)
            IN  /\ requests' = chk.requests
                /\ IF chk.admitted THEN
                       /\ pc' = [pc EXCEPT ![r] = "ensureAuth"]
                       /\ UNCHANGED <<retryCount, authState, lastAuthCheck,
                                      sent, header, respLog, alone>>
                       /\ outcome' = NoOutcome
                   ELSE
                       handleResponseError(r, LocalError(chk.message),
                                           respLog[r], chk.error)
    /\ UNCHANGED <<now, config>>

\* Request interceptor, second part: authenticate unless authenticated
EnsureAuth(r) ==
    /\ pc[r] = "ensureAuth"
    /\ IF isAuthenticated(authState, lastAuthCheck, now) THEN
           UNCHANGED <<authState, lastAuthCheck>>
       ELSE
           /\ authState' = authenticate(config, now)
           /\ lastAuthCheck' = now
    /\ pc' = [pc EXCEPT ![r] = "attachHeader"]
    /\ UNCHANGED <<now, config, requests, retryCount, sent, header, respLog, alone>>
    /\ outcome' = NoOutcome

\* Request interceptor, last part, and dispatchRequest: the Authorization
\* header is attached and the request goes on the wire
AttachHeader(r) ==
    /\ pc[r] = "attachHeader"
    /\ LET h == getAuthorizationHeader(authState)
       IN  IF h = Null THEN
               handleResponseError(r,
                   LocalError(<<"No authentication credentials available">>),
                   respLog[r], "UNAUTHORIZED")
           ELSE
               /\ header' = [header EXCEPT ![r] = h[1]]
               /\ sent' = [sent EXCEPT ![r] = @ + 1]
               /\ pc' = [pc EXCEPT ![r] = "inflight"]
               /\ UNCHANGED <<retryCount, authState, lastAuthCheck, respLog, alone>>
               /\ outcome' = NoOutcome
    /\ UNCHANGED <<now, config, requests>>

\* Response interceptor, success handler
RespondOk(r) ==
    /\ pc[r] = "inflight"
    /\ Quiescent
    /\ retryCount' = 0
    /\ Settle(r, Fulfilled(200),
              Append(respLog[r], [status |-> 200, code |-> "undefined"]),
              "none")
    /\ UNCHANGED <<now, config, authState, lastAuthCheck, requests>>

\* Response interceptor, rejection handler: a non-2xx response or a
\* transport failure.  The server stops answering 401 to a call that was
\* sent MaxSent times (this bounds the number of attempts explored).
RespondError(r) ==
    /\ pc[r] = "inflight"
    /\ Quiescent
    /\ \E err \in Failures :
          /\ IsAuthFailure(err.status) => sent[r] < MaxSent
          /\ handleResponseError(r, err,
                 Append(respLog[r], [status |-> err.status, code |-> err.code]),
                 "none")
    /\ UNCHANGED <<now, config, requests>>

Tick ==
    /\ now < MaxTicks * TickMs
    /\ now' = now + TickMs
    /\ UNCHANGED <<config, authState, lastAuthCheck, requests, retryCount,
                   pc, sent, header, respLog, alone>>
    /\ outcome' = NoOutcome

\* A client and its manager right after construction
InitClient ==
    /\ now = 0
    /\ authState = EmptyAuthState
    /\ lastAuthCheck = NoTime
    /\ requests = <<>>
    /\ retryCount = 0
    /\ pc = [r \in Calls |-> "idle"]
    /\ sent = [r \in Calls |-> 0]
    /\ header = [r \in Calls |-> NoHeader]
    /\ respLog = [r \in Calls |-> <<>>]
    /\ alone = [r \in Calls |-> TRUE]
    /\ outcome = NoOutcome

InitHttp ==
    /\ config \in {ValidConfig(rl) : rl \in RateLimits}
    /\ InitClient

IdleLimiter ==
    /\ admits = <<>>
    /\ lastCheck = NoCheck
    /\ everRejected = FALSE

IdleCtor ==
    /\ mgr = "live"
    /\ ctorError = "none"
    /\ security = [isSecure |-> TRUE, issues |-> <<>>, warnings |-> <<>>]

IdleTools ==
    /\ srv = "constructed"
    /\ rawConfig = Null
    /\ cmConfig = Null
    /\ wpClient = Null
    /\ toolsListed = FALSE
    /\ wire = {}
    /\ toolAnswer = "none"

\* The values the variables of the other components have while a
\* specification does not use them
NoHeaderResult == [thrown |-> "none", value |-> NoHeader]

NoMgrOp ==
    [op |-> "none", prevOp |-> "none", life |-> "new",
     before |-> [authState |-> EmptyAuthState, lastAuthCheck |-> NoTime],
     result |-> NoHeaderResult]

Unset == [kind |-> "unset", val |-> 0]

EmptyEnv ==
    [site_url |-> Null, username |-> "", app_password |-> Null,
     verify_ssl |-> "unset", timeout |-> Unset, rpm |-> Unset, burst |-> Unset]

NoLoad == [done |-> FALSE, doc |-> Null, config |-> Null, error |-> "none"]

NoService ==
    [isInitialized |-> FALSE, authManager |-> FALSE, httpClient |-> Null,
     connectionTester |-> Null, connectionInfo |-> "none"]

NoSvcOp ==
    [op |-> "none", cfg |-> Null, error |-> "none", ctor |-> "none",
     initBefore |-> FALSE, clientBefore |-> FALSE, live |-> FALSE,
     value |-> "none"]

NoSteps ==
    [security |-> "none", auth |-> "none", root |-> "none",
     identity |-> "none", metadata |-> "none"]

IdleTester ==
    [pc |-> "idle", steps |-> NoSteps, done |-> FALSE, success |-> FALSE,
     startTime |-> 0, duration |-> 0]

IdleAuth == mgrOp = NoMgrOp
IdleLoader == env = EmptyEnv /\ ldr = NoLoad
IdleService == svc = NoService /\ svcOp = NoSvcOp /\ sends = <<>>
IdleTest == tst = IdleTester
NoToolCall ==
    [done |-> FALSE, tool |-> "none", thrown |-> Null, isError |-> FALSE,
     text |-> <<>>]

IdleWpClient ==
    /\ rateLimitState = [requests |-> 0, resetTime |-> 0, isBlocked |-> FALSE]
    /\ wpAdmits = <<>>
    /\ toolCall = NoToolCall

IdleExt == IdleAuth /\ IdleLoader /\ IdleService /\ IdleTest /\ IdleWpClient

Init == InitHttp /\ IdleLimiter /\ IdleCtor /\ IdleTools /\ IdleExt

Next ==
    \/ \E r \in Calls : Issue(r) /\ UNCHANGED <<limVars, ctorVars, toolVars, extVars>>
    \/ \E r \in Calls : CheckLimit(r) /\ UNCHANGED <<limVars, ctorVars, toolVars, extVars>>
    \/ \E r \in Calls : EnsureAuth(r) /\ UNCHANGED <<limVars, ctorVars, toolVars, extVars>>
    \/ \E r \in Calls : AttachHeader(r) /\ UNCHANGED <<limVars, ctorVars, toolVars, extVars>>
    \/ \E r \in Calls : RespondOk(r) /\ UNCHANGED <<limVars, ctorVars, toolVars, extVars>>
    \/ \E r \in Calls : RespondError(r) /\ UNCHANGED <<limVars, ctorVars, toolVars, extVars>>
    \/ Tick /\ UNCHANGED <<limVars, ctorVars, toolVars, extVars>>

Spec == Init /\ [][Next]_vars

---------------------------------------------------------------------------
(* The RateLimiter on its own: checkLimit() calls and the passing of time *)

KeepLast(seq, n) ==
    IF Len(seq) <= n THEN seq ELSE SubSeq(seq, Len(seq) - n + 1, Len(seq))

Limit == config.rate_limit[1].requests_per_minute

\* One call of checkLimit(); admits keeps the times of the latest MaxLimit
\* admissions, whatever the limiter itself has pruned
LimiterCheck ==
    LET chk == checkLimit(requests, Limit, now)
    IN  /\ requests' = chk.requests
        /\ lastCheck' = [made |-> TRUE, admitted |-> chk.admitted,
                         error |-> chk.error, prior |-> admits]
        /\ admits' = IF chk.admitted
                     THEN KeepLast(Append(admits, now), MaxLimit)
                     ELSE admits
        /\ everRejected' = (everRejected \/ ~chk.admitted)
        /\ UNCHANGED <<now, config, authState, lastAuthCheck, retryCount, pc,
                       sent, header, respLog, alone, outcome>>

LimiterTick ==
    /\ Tick
    /\ lastCheck' = NoCheck
    /\ UNCHANGED <<admits, everRejected>>

InitLimiter ==
    /\ InitHttp
    /\ config.rate_limit # Null
    /\ IdleLimiter /\ IdleCtor /\ IdleTools /\ IdleExt

NextLimiter ==
    \/ LimiterCheck /\ UNCHANGED <<ctorVars, toolVars, extVars>>
    \/ LimiterTick /\ UNCHANGED <<ctorVars, toolVars, extVars>>

SpecLimiter == InitLimiter /\ [][NextLimiter]_vars

---------------------------------------------------------------------------
(* The client's requests with the history of the limiter's admissions:    *)
(* concurrent calls reach checkLimit() in any order                        *)

\* The request interceptor's checkLimit() for call r; admits keeps the times
\* of the latest admissions, whatever the limiter itself has pruned
AdmissionCheck(r) ==
    /\ CheckLimit(r)
    /\ admits' = IF config.rate_limit # Null /\ pc'[r] = "ensureAuth"
                 THEN KeepLast(Append(admits, now), MaxLimit + 1)
                 ELSE admits
    /\ everRejected' = (everRejected \/ pc'[r] = "idle")
    /\ UNCHANGED lastCheck

InitAdmission ==
    /\ InitHttp
    /\ config.rate_limit # Null
    /\ IdleLimiter /\ IdleCtor /\ IdleTools /\ IdleExt

NextAdmission ==
    \/ \E r \in Calls : Issue(r) /\ UNCHANGED <<limVars, ctorVars, toolVars, extVars>>
    \/ \E r \in Calls : AdmissionCheck(r) /\ UNCHANGED <<ctorVars, toolVars, extVars>>
    \/ \E r \in Calls : EnsureAuth(r) /\ UNCHANGED <<limVars, ctorVars, toolVars, extVars>>
    \/ \E r \in Calls : AttachHeader(r) /\ UNCHANGED <<limVars, ctorVars, toolVars, extVars>>
    \/ \E r \in Calls : RespondOk(r) /\ UNCHANGED <<limVars, ctorVars, toolVars, extVars>>
    \/ \E r \in Calls : RespondError(r) /\ UNCHANGED <<limVars, ctorVars, toolVars, extVars>>
    \/ Tick /\ UNCHANGED <<limVars, ctorVars, toolVars, extVars>>

SpecAdmission == InitAdmission /\ [][NextAdmission]_vars

---------------------------------------------------------------------------
(* The WordPressAuthenticationManager on its own: its operations called in *)
(* any order while time passes                                             *)

AuthTickMs == AUTH_CACHE_DURATION \div TicksPerWindow

\* Mutant: the flag is cleared, the credentials are kept
invalidateAuthKeepsCredentials ==
    [authState |-> [authState EXCEPT !.isAuthenticated = FALSE],
     lastAuthCheck |-> NoTime]

\* Mutant: the time of the last check is kept
invalidateAuthKeepsLastCheck ==
    [authState |-> EmptyAuthState, lastAuthCheck |-> lastAuthCheck]

\* invalidateAuth(): the fields it stores
invalidateAuth == [authState |-> EmptyAuthState, lastAuthCheck |-> NoTime]

MgrFields == [authState |-> authState, lastAuthCheck |-> lastAuthCheck]

MgrAuthenticate ==
    /\ authState' = authenticate(config, now)
    /\ lastAuthCheck' = now
    /\ mgrOp' = [op |-> "authenticate", prevOp |-> mgrOp.op,
                 life |-> "authenticated", before |-> MgrFields,
                 result |-> NoHeaderResult]
    /\ UNCHANGED <<now, config, requests, retryCount, pc, sent, header,
                   respLog, alone, outcome>>

MgrInvalidateAuth ==
    /\ authState' = invalidateAuth.authState
    /\ lastAuthCheck' = invalidateAuth.lastAuthCheck
    /\ mgrOp' = [op |-> "invalidateAuth", prevOp |-> mgrOp.op,
                 life |-> "invalidated", before |-> MgrFields,
                 result |-> NoHeaderResult]
    /\ UNCHANGED <<now, config, requests, retryCount, pc, sent, header,
                   respLog, alone, outcome>>

MgrGetAuthorizationHeader ==
    /\ LET h == getAuthorizationHeader(authState)
       IN  mgrOp' = [op |-> "getAuthorizationHeader", prevOp |-> mgrOp.op,
                     life |-> mgrOp.life, before |-> MgrFields,
                     result |-> IF h = Null
                                THEN [thrown |-> "UNAUTHORIZED", value |-> NoHeader]
                                ELSE [thrown |-> "none", value |-> h[1]]]
    /\ UNCHANGED httpVars

MgrTick ==
    /\ now < MaxTicks * AuthTickMs
    /\ now' = now + AuthTickMs
    /\ mgrOp' = [mgrOp EXCEPT !.op = "tick", !.prevOp = mgrOp.op]
    /\ UNCHANGED <<config, authState, lastAuthCheck, requests, retryCount,
                   pc, sent, header, respLog, alone, outcome>>

InitAuth ==
    /\ config = ValidConfig(Null)
    /\ InitClient
    /\ IdleLimiter /\ IdleCtor /\ IdleTools /\ IdleExt

NextAuth ==
    \/ MgrAuthenticate /\ UNCHANGED <<limVars, ctorVars, toolVars, ldrVars, svcVars, tstVars, wpcVars>>
    \/ MgrInvalidateAuth /\ UNCHANGED <<limVars, ctorVars, toolVars, ldrVars, svcVars, tstVars, wpcVars>>
    \/ MgrGetAuthorizationHeader /\ UNCHANGED <<limVars, ctorVars, toolVars, ldrVars, svcVars, tstVars, wpcVars>>
    \/ MgrTick /\ UNCHANGED <<limVars, ctorVars, toolVars, ldrVars, svcVars, tstVars, wpcVars>>

SpecAuth == InitAuth /\ [][NextAuth]_vars

---------------------------------------------------------------------------
(* Construction of the WordPressAuthenticationManager *)

\* new URL(site_url): throws on a string that is no absolute URL
URLParses(url) == url.scheme # "none"

\* Mutant: the HTTPS requirement is not checked
RequiresHttpsNever(url) == FALSE

\* url.protocol !== 'https:'
RequiresHttps(url) == url.scheme # "https"

\* Mutant: only the length of the stripped password is tested
isValidApplicationPasswordLengthOnly(password) ==
    password.alnum + password.other = 24

isValidApplicationPassword(password) ==
    LET cleanLength == password.alnum + password.other
    IN  cleanLength = 24 /\ password.other = 0

validateSecurity(cfg) ==
    LET url == cfg.site_url
        issues ==
            IF ~URLParses(url) THEN <<"Invalid site URL format">>
            ELSE IF RequiresHttps(url) THEN <<"Site URL must use HTTPS">>
            ELSE <<>>
        warnings ==
            IF ~URLParses(url) THEN <<>>
            ELSE (IF url.host \in {"localhost", "127.0.0.1"}
                  THEN <<"Using localhost">> ELSE <<>>)
              \o (IF cfg.verify_ssl = FALSE
                  THEN <<"SSL verification is disabled">> ELSE <<>>)
              \o (IF cfg.timeout > TIMEOUT_WARN_MS
                  THEN <<"Timeout is set very high">> ELSE <<>>)
    IN  [isSecure |-> Len(issues) = 0, issues |-> issues, warnings |-> warnings]

\* validateConfiguration(): the type of the error it throws, "none" if none
validateConfiguration(cfg) ==
    IF ~validateSecurity(cfg).isSecure THEN "INVALID_URL"
    ELSE IF ~URLParses(cfg.site_url) \/ cfg.site_url.scheme # "https"
        THEN "INVALID_URL"
    ELSE IF ~isValidApplicationPassword(cfg.app_password)
        THEN "INVALID_CREDENTIALS"
    ELSE "none"

SiteUrls == [scheme : Schemes, host : Hosts]
Timeouts == {DEFAULT_TIMEOUT, TIMEOUT_WARN_MS, TIMEOUT_WARN_MS + 1}

CandidateConfigs ==
    [site_url : SiteUrls, username : {"admin"}, app_password : Passwords,
     verify_ssl : BOOLEAN, timeout : Timeouts, rate_limit : {Null}]

\* new WordPressAuthenticationManager(config)
Construct ==
    /\ mgr = "absent"
    /\ security' = validateSecurity(config)
    /\ ctorError' = validateConfiguration(config)
    /\ mgr' = IF validateConfiguration(config) = "none" THEN "live" ELSE "rejected"
    /\ authState' = EmptyAuthState
    /\ lastAuthCheck' = NoTime
    /\ UNCHANGED <<now, config, requests, retryCount, pc, sent, header,
                   respLog, alone, outcome>>

InitCtor ==
    /\ config \in CandidateConfigs
    /\ InitClient
    /\ mgr = "absent"
    /\ ctorError = "none"
    /\ security = [isSecure |-> TRUE, issues |-> <<>>, warnings |-> <<>>]
    /\ IdleLimiter /\ IdleTools /\ IdleExt

NextCtor ==
    \/ Construct /\ UNCHANGED <<limVars, toolVars, extVars>>

SpecCtor ==
    /\ InitCtor
    /\ [][NextCtor]_vars

---------------------------------------------------------------------------
(* The tool path: ConfigManager, WordPressClient, WordPressMCPServer *)

\* z.string().url(): any string new URL() accepts, whatever its scheme
ZodUrl(url) == URLParses(url)

\* WordPressConfigSchema.parse(doc) succeeds
SchemaAccepts(doc) ==
    /\ ZodUrl(doc.site_url)
    /\ doc.username # ""
    /\ PasswordLength(doc.app_password) >= 1
    /\ doc.timeout > 0
    /\ doc.rate_limit # Null =>
           /\ doc.rate_limit[1].requests_per_minute > 0
           /\ doc.rate_limit[1].burst_limit > 0

Sources == {"WORDPRESS_CONFIG", "environment", "wordpress-config.json", "none"}

RawConfigs ==
    [source : Sources, site_url : SiteUrls, username : {"", "admin"},
     app_password : {EmptyPassword, GoodPassword},
     timeout : {0, DEFAULT_TIMEOUT}, rate_limit : {Null}]

\* ConfigManager.loadConfig(): the configuration held afterwards (Null: null)
loadConfig(raw) ==
    IF raw.source = "none" THEN Null
    ELSE IF SchemaAccepts(raw)
        THEN Some([site_url |-> raw.site_url, username |-> raw.username,
                   app_password |-> raw.app_password, timeout |-> raw.timeout,
                   rate_limit |-> raw.rate_limit])
    ELSE Null

\* new WordPressClient(config): the axios instance it creates and the
\* rate-limit policy of the configuration it keeps
WordPressClient(cfg) ==
    [baseURL |-> cfg.site_url, timeout |-> cfg.timeout,
     rate_limit |-> cfg.rate_limit]

\* new WordPressMCPServer(): its ConfigManager loads the configuration
NewServer ==
    /\ srv = "new"
    /\ srv' = "constructed"
    /\ cmConfig' = loadConfig(rawConfig)
    /\ UNCHANGED <<rawConfig, wpClient, toolsListed, wire, toolAnswer>>

\* WordPressMCPServer.start(): with a configuration loaded, a throw-away
\* client probes /users/me before the transport is connected
Start ==
    /\ srv = "constructed"
    /\ srv' = "serving"
    /\ wire' = IF cmConfig # Null
               THEN wire \cup {WordPressClient(cmConfig[1]).baseURL.scheme}
               ELSE wire
    /\ UNCHANGED <<rawConfig, cmConfig, wpClient, toolsListed, toolAnswer>>

\* Mutant: without a configuration the client is built for a default site
ensureInitializedDefault(client, held) ==
    IF client # Null THEN client
    ELSE IF held = Null
        THEN Some(WordPressClient([site_url |-> [scheme |-> "https", host |-> "localhost"],
                                   timeout |-> DEFAULT_TIMEOUT, rate_limit |-> Null]))
    ELSE Some(WordPressClient(held[1]))

\* ensureInitialized(): the client afterwards (Null: still none)
ensureInitialized(client, held) ==
    IF client # Null THEN client
    ELSE IF held = Null THEN Null
    ELSE Some(WordPressClient(held[1]))

\* ListTools handler
ListTools ==
    /\ srv = "serving"
    /\ wpClient' = ensureInitialized(wpClient, cmConfig)
    /\ toolsListed' = (ensureInitialized(wpClient, cmConfig) # Null)
    /\ toolAnswer' = IF ensureInitialized(wpClient, cmConfig) # Null
                     THEN "tools:listed" ELSE "tools:empty"
    /\ UNCHANGED <<srv, rawConfig, cmConfig, wire>>

\* CallTool handler: without a client the answer is an isError result;
\* otherwise, with arguments the tool's schema accepts, the client's method
\* sends its request to the base URL, and the answer is an isError result
\* unless the request succeeds
CallTool ==
    /\ srv = "serving"
    /\ wpClient' = ensureInitialized(wpClient, cmConfig)
    /\ IF ensureInitialized(wpClient, cmConfig) = Null THEN
           /\ wire' = wire
           /\ toolAnswer' = "call:isError"
       ELSE \E validArgs \in BOOLEAN, ok \in BOOLEAN :
           /\ wire' = IF validArgs
                      THEN wire \cup {ensureInitialized(wpClient, cmConfig)[1].baseURL.scheme}
                      ELSE wire
           /\ toolAnswer' = IF validArgs /\ ok THEN "call:ok" ELSE "call:isError"
    /\ UNCHANGED <<srv, rawConfig, cmConfig, toolsListed>>

InitTools ==
    /\ config = ValidConfig(Null)
    /\ InitClient /\ IdleLimiter /\ IdleCtor /\ IdleExt
    /\ srv = "new"
    /\ rawConfig \in RawConfigs
    /\ cmConfig = Null
    /\ wpClient = Null
    /\ toolsListed = FALSE
    /\ wire = {}
    /\ toolAnswer = "none"

NextTools ==
    \/ NewServer /\ UNCHANGED <<httpVars, limVars, ctorVars, extVars>>
    \/ Start /\ UNCHANGED <<httpVars, limVars, ctorVars, extVars>>
    \/ ListTools /\ UNCHANGED <<httpVars, limVars, ctorVars, extVars>>
    \/ CallTool /\ UNCHANGED <<httpVars, limVars, ctorVars, extVars>>

SpecTools == InitTools /\ [][NextTools]_vars

---------------------------------------------------------------------------
(* WordPressConnectionTester.testConnection() *)

\* What a get() of the tester's HTTP client can settle with
GetOutcomes ==
    {Fulfilled(200), Fulfilled(204)} \cup
    {ClassifyError(err) : err \in Failures} \cup
    {WordPressAuthError("UNAUTHORIZED",
         <<"Invalid credentials or expired authentication">>, 401)}

\* The verdict of a probe on the outcome of its get(): passed on a 200
\* response, otherwise what made it fail
ProbeVerdict(res) ==
    IF res.state = "rejected" THEN res.type
    ELSE IF res.httpStatus # 200 THEN "not 200"
    ELSE "passed"

\* The tester returns a result: back to the caller with the elapsed time
TestReturn(steps, success) ==
    tst' = [pc |-> "idle", steps |-> steps, done |-> TRUE, success |-> success,
            startTime |-> tst.startTime, duration |-> now - tst.startTime]

\* testConnection() up to its first suspension: steps 1 and 2
TestStart ==
    /\ tst.pc = "idle"
    /\ IF ~validateSecurity(config).isSecure THEN
           /\ tst' = [pc |-> "idle",
                      steps |-> [NoSteps EXCEPT !.security = "failed"],
                      done |-> TRUE, success |-> FALSE,
                      startTime |-> now, duration |-> 0]
           /\ UNCHANGED <<authState, lastAuthCheck>>
       ELSE
           /\ authState' = authenticate(config, now)
           /\ lastAuthCheck' = now
           /\ tst' = [pc |-> "root",
                      steps |-> [NoSteps EXCEPT !.security = "passed",
                                                !.auth = "passed"],
                      done |-> FALSE, success |-> FALSE,
                      startTime |-> now, duration |-> 0]
    /\ UNCHANGED <<now, config, requests, retryCount, pc, sent, header,
                   respLog, alone, outcome>>

\* Step 3, testBasicConnectivity(): get('/') settles
TestBasicConnectivity ==
    /\ tst.pc = "root"
    /\ \E res \in GetOutcomes :
          LET steps == [tst.steps EXCEPT !.root = ProbeVerdict(res)]
          IN  IF ProbeVerdict(res) = "passed"
              THEN tst' = [tst EXCEPT !.pc = "identity", !.steps = steps]
              ELSE TestReturn(steps, FALSE)
    /\ UNCHANGED httpVars

\* Step 4, testApiAccess(): get('/users/me') settles; the user must have
\* capabilities
TestApiAccess ==
    /\ tst.pc = "identity"
    /\ \E res \in GetOutcomes, capabilities \in BOOLEAN :
          LET verdict == IF ProbeVerdict(res) = "passed" /\ ~capabilities
                         THEN "no capabilities" ELSE ProbeVerdict(res)
              steps == [tst.steps EXCEPT !.identity = verdict]
          IN  IF verdict = "passed"
              THEN tst' = [tst EXCEPT !.pc = "metadata", !.steps = steps]
              ELSE TestReturn(steps, FALSE)
    /\ UNCHANGED httpVars

\* getConnectionInfo(): the two get() calls and the endpoint listing made
\* with axios directly; "passed" when it returns, otherwise the type of the
\* error it throws
getConnectionInfo(site, user, rootOk) ==
    IF site.state = "rejected" THEN site.type
    ELSE IF user.state = "rejected" THEN user.type
    ELSE IF ~rootOk THEN "NETWORK_ERROR"
    ELSE "passed"

\* Step 5, getSiteInformation(), and the return of testConnection(): an
\* error of getConnectionInfo() is caught and partial information returned
TestSiteInformation ==
    /\ tst.pc = "metadata"
    /\ \E site \in GetOutcomes, user \in GetOutcomes, rootOk \in BOOLEAN :
          TestReturn([tst.steps EXCEPT
                          !.metadata = getConnectionInfo(site, user, rootOk)],
                     TRUE)
    /\ UNCHANGED httpVars

TestTick ==
    /\ Tick
    /\ UNCHANGED tst

\* The manager of a tester holds a configuration that passed validation,
\* or one that updateConfig() stored and then rejected
TesterConfigs ==
    {ValidConfig(Null),
     [ValidConfig(Null) EXCEPT !.site_url = [scheme |-> "http", host |-> "example.com"]]}

InitTester ==
    /\ config \in TesterConfigs
    /\ InitClient
    /\ IdleLimiter /\ IdleCtor /\ IdleTools
    /\ IdleAuth /\ IdleLoader /\ IdleService /\ IdleWpClient
    /\ tst = IdleTester

NextTester ==
    \/ TestStart /\ UNCHANGED <<limVars, ctorVars, toolVars, authVars, ldrVars, svcVars, wpcVars>>
    \/ TestBasicConnectivity /\ UNCHANGED <<limVars, ctorVars, toolVars, authVars, ldrVars, svcVars, wpcVars>>
    \/ TestApiAccess /\ UNCHANGED <<limVars, ctorVars, toolVars, authVars, ldrVars, svcVars, wpcVars>>
    \/ TestSiteInformation /\ UNCHANGED <<limVars, ctorVars, toolVars, authVars, ldrVars, svcVars, wpcVars>>
    \/ TestTick /\ UNCHANGED <<limVars, ctorVars, toolVars, authVars, ldrVars, svcVars, wpcVars>>

SpecTester == InitTester /\ [][NextTester]_vars

---------------------------------------------------------------------------
(* WordPressClient.checkRateLimit on its own *)

WP_RESET_MS == 60000

\* new WordPressClient(config) at time t: its rateLimitState
NewRateLimitState(t) ==
    [requests |-> 0, resetTime |-> t + WP_RESET_MS, isBlocked |-> FALSE]

\* checkRateLimit() at time t: whether the call goes on (no throw) and the
\* rateLimitState afterwards
checkRateLimit(state, rateLimit, t) ==
    LET st == IF t >= state.resetTime
              THEN [state EXCEPT !.requests = 0, !.resetTime = t + WP_RESET_MS]
              ELSE state
    IN  IF rateLimit # Null /\ st.requests >= rateLimit[1].requests_per_minute
        THEN [admitted |-> FALSE, state |-> st]
        ELSE [admitted |-> TRUE, state |-> [st EXCEPT !.requests = @ + 1]]

\* A method of the client calls checkRateLimit(); wpAdmits keeps the times
\* of the latest MaxLimit + 1 admissions
WpCheckRateLimit ==
    /\ wpClient # Null
    /\ LET chk == checkRateLimit(rateLimitState, wpClient[1].rate_limit, now)
       IN  /\ rateLimitState' = chk.state
           /\ wpAdmits' = IF chk.admitted
                          THEN KeepLast(Append(wpAdmits, now), MaxLimit + 1)
                          ELSE wpAdmits
    /\ UNCHANGED <<httpVars, toolVars, toolCall>>

\* Configuration files with a rate_limit section
LimitedConfigs ==
    {[source |-> "wordpress-config.json",
      site_url |-> [scheme |-> "https", host |-> "example.com"],
      username |-> "admin", app_password |-> GoodPassword,
      timeout |-> DEFAULT_TIMEOUT, rate_limit |-> rl] : rl \in RateLimits \ {Null}}

WpTick ==
    /\ Tick
    /\ UNCHANGED <<toolVars, wpcVars>>

InitWpClient ==
    /\ config = ValidConfig(Null)
    /\ InitClient
    /\ IdleLimiter /\ IdleCtor
    /\ IdleAuth /\ IdleLoader /\ IdleService /\ IdleTest
    /\ srv = "serving"
    /\ rawConfig \in LimitedConfigs
    /\ cmConfig = loadConfig(rawConfig)
    /\ wpClient = Some(WordPressClient(cmConfig[1]))
    /\ toolsListed = FALSE
    /\ wire = {}
    /\ toolAnswer = "none"
    /\ rateLimitState = NewRateLimitState(now)
    /\ wpAdmits = <<>>
    /\ toolCall = NoToolCall

NextWpClient ==
    \/ WpCheckRateLimit /\ UNCHANGED <<limVars, ctorVars, authVars, ldrVars, svcVars, tstVars>>
    \/ WpTick /\ UNCHANGED <<limVars, ctorVars, authVars, ldrVars, svcVars, tstVars>>

SpecWpClient == InitWpClient /\ [][NextWpClient]_vars

---------------------------------------------------------------------------
(* WordPressTools.callTool over a WordPressClient: how a failure of the    *)
(* client's method is rendered                                             *)

ToolNames == {"wordpress_create_post", "wordpress_read_post",
              "wordpress_update_post", "wordpress_list_posts",
              "wordpress_delete_post"}

\* The text each tool method puts before the error it caught
FailurePrefix(tool) ==
    CASE tool = "wordpress_create_post" -> "Failed to create post:"
      [] tool = "wordpress_read_post" -> "Failed to read post:"
      [] tool = "wordpress_update_post" -> "Failed to update post:"
      [] tool = "wordpress_list_posts" -> "Failed to list posts:"
      [] tool = "wordpress_delete_post" -> "Failed to delete post:"

\* error.response.data of a failed response (Null: no message in it)
ApiData == {Null, Some([message |-> <<"Sorry, you are not allowed to do that.">>,
                        code |-> "rest_error"])}

ApiStatuses == {400, 401, 403, 404, 429, 500, 503}

\* An AxiosError raised before a request was made
SetupError == [response |-> Null, request |-> FALSE, message |-> <<"Invalid URL">>]

\* The AxiosError handed to the client's response interceptor: a failed
\* response, a request without response, or a failure to set the request up
ApiErrors ==
    {[response |-> Some([status |-> st, data |-> d]), request |-> TRUE,
      message |-> <<"Request failed with status code", ToString(st)>>] :
        st \in ApiStatuses, d \in ApiData} \cup
    {[response |-> Null, request |-> TRUE,
      message |-> <<"timeout of 30000ms exceeded">>],
     SetupError}

\* A thrown value: whether it is an instance of Error, where it was thrown,
\* and its message property
Thrown(isErrorInstance, origin, code, message) ==
    [instanceOfError |-> isErrorInstance, origin |-> origin, code |-> code,
     message |-> message]

\* handleApiError(error): the WordPressError object literal it throws
handleApiError(error) ==
    IF error.response # Null THEN
        LET status == error.response[1].status
            data == error.response[1].data
        IN  CASE status = 401 ->
                   Thrown(FALSE, "handleApiError", "authentication_failed",
                          <<"Authentication failed. Please check your username and application password.">>)
              [] status = 403 ->
                   Thrown(FALSE, "handleApiError", "forbidden",
                          <<"Access forbidden. You may not have permission to perform this action.">>)
              [] status = 404 ->
                   Thrown(FALSE, "handleApiError", "not_found",
                          <<"Resource not found. The requested post, page, or endpoint does not exist.">>)
              [] status = 400 ->
                   IF data # Null
                   THEN Thrown(FALSE, "handleApiError", data[1].code, data[1].message)
                   ELSE Thrown(FALSE, "handleApiError", "bad_request",
                               <<"Bad request. Please check your input parameters.">>)
              [] status = 429 ->
                   Thrown(FALSE, "handleApiError", "too_many_requests",
                          <<"Too many requests. Please slow down your API calls.">>)
              [] status = 500 ->
                   Thrown(FALSE, "handleApiError", "server_error",
                          <<"WordPress server error. Please try again later.">>)
              [] OTHER ->
                   IF data # Null
                   THEN Thrown(FALSE, "handleApiError", data[1].code, data[1].message)
                   ELSE Thrown(FALSE, "handleApiError", "http_error",
                               <<"HTTP", ToString(status)>> \o error.message)
    ELSE IF error.request THEN
        Thrown(FALSE, "handleApiError", "network_error",
               <<"Network error. Please check your internet connection and WordPress site URL.">>)
    ELSE Thrown(FALSE, "handleApiError", "request_error", error.message)

\* error instanceof Error ? error.message : fallback
MessageOf(error, fallback) ==
    IF error.instanceOfError THEN error.message ELSE <<fallback>>

\* The error checkRateLimit() throws at time t
WpRateLimitError(state, t) ==
    Thrown(TRUE, "checkRateLimit", "none",
           <<"Rate limit exceeded. Please wait",
             ToString(Ceil1000(state.resetTime - t)), "seconds.">>)

\* What the replies of the site are drawn from: a 2xx response with or
\* without the resource, or one of the failures
Replies == {"ok", "empty", "error"}

\* The value a tool method of WordPressTools catches, Null if none:
\* the ZodError of its schema, the Error of checkRateLimit(), the object
\* thrown by handleApiError, or the object thrown by readPost for a search
\* that found nothing
CaughtByTool(tool, validArgs, chk, reply, error) ==
    IF ~validArgs THEN
        Some(Thrown(TRUE, "zod", "none", <<"Invalid input">>))
    ELSE IF ~chk.admitted THEN Some(WpRateLimitError(chk.state, now))
    ELSE IF reply = "error" THEN Some(handleApiError(error))
    ELSE IF reply = "empty" /\ tool = "wordpress_read_post" THEN
        Some(Thrown(FALSE, "readPost", "not_found", <<"Post not found">>))
    ELSE Null

\* callTool(request) for a tool of the list: the tool method validates the
\* arguments, calls the client's method (rate-limit check, then the
\* request) and returns the rendered result or the rendered error
WpCallTool(tool) ==
    /\ wpClient # Null
    /\ \E validArgs \in BOOLEAN, reply \in Replies :
       \E error \in IF reply = "error" THEN ApiErrors ELSE {SetupError} :
          LET chk == checkRateLimit(rateLimitState, wpClient[1].rate_limit, now)
              caught == CaughtByTool(tool, validArgs, chk, reply, error)
              asked == validArgs
              wired == validArgs /\ chk.admitted
          IN  /\ rateLimitState' = IF asked THEN chk.state ELSE rateLimitState
              /\ wpAdmits' = IF wired
                             THEN KeepLast(Append(wpAdmits, now), MaxLimit + 1)
                             ELSE wpAdmits
              /\ wire' = IF wired THEN wire \cup {wpClient[1].baseURL.scheme}
                         ELSE wire
              /\ toolAnswer' = IF caught = Null THEN "call:ok" ELSE "call:isError"
              /\ toolCall' =
                    [done |-> TRUE, tool |-> tool, thrown |-> caught,
                     isError |-> caught # Null,
                     text |-> IF caught = Null THEN <<"Success">>
                              ELSE <<FailurePrefix(tool)>>
                                       \o MessageOf(caught[1], "Unknown error")]
    /\ UNCHANGED <<httpVars, srv, rawConfig, cmConfig, wpClient, toolsListed>>

\* callTool(request) for a name that is no tool: the switch throws an Error
\* and callTool renders it itself
WpCallUnknownTool ==
    /\ wpClient # Null
    /\ LET caught == Thrown(TRUE, "callTool", "none", <<"Unknown tool:", "nope">>)
       IN  toolCall' = [done |-> TRUE, tool |-> "nope", thrown |-> Some(caught),
                        isError |-> TRUE,
                        text |-> <<"Error:">>
                                    \o MessageOf(caught, "Unknown error occurred")]
    /\ toolAnswer' = "call:isError"
    /\ UNCHANGED <<httpVars, srv, rawConfig, cmConfig, wpClient, toolsListed,
                   wire, rateLimitState, wpAdmits>>

NextToolCall ==
    \/ \E tool \in ToolNames :
          WpCallTool(tool) /\ UNCHANGED <<limVars, ctorVars, authVars, ldrVars, svcVars, tstVars>>
    \/ WpCallUnknownTool /\ UNCHANGED <<limVars, ctorVars, authVars, ldrVars, svcVars, tstVars>>
    \/ WpTick /\ UNCHANGED <<limVars, ctorVars, authVars, ldrVars, svcVars, tstVars>>

SpecToolCall == InitWpClient /\ [][NextToolCall]_vars

---------------------------------------------------------------------------
(* WordPressConfigLoader: the configuration read from the environment *)

DEFAULT_RPM == 60
DEFAULT_BURST == 10

\* An environment variable read as a number: unset (or empty), a text
\* parseInt() makes NaN of, or a text parseInt() reads as val
NaNText == [kind |-> "text", val |-> 0]
Digits(n) == [kind |-> "digits", val |-> n]

\* parseNumber(value, defaultValue): Null stands for undefined
parseNumber(value, defaultValue) ==
    IF value.kind = "unset" THEN defaultValue
    ELSE IF value.kind = "text" THEN defaultValue
    ELSE Some(value.val)

\* x || d for a number x that may be undefined: 0 is falsy
OrDefault(x, d) == IF x = Null \/ x[1] = 0 THEN d ELSE x[1]

parseBoolean(value, defaultValue) ==
    IF value = "unset" THEN defaultValue ELSE value \in {"true", "1", "yes"}

\* String.trim() on a password: the spaces counted lie between other
\* characters unless the password is made of spaces only
Trim(password) ==
    IF password.alnum + password.other = 0
    THEN [password EXCEPT !.space = 0] ELSE password

\* An environment variable holding a non-empty password
Present(pw) == pw # Null /\ PasswordLength(pw[1]) > 0

\* validateAndSanitizeConfig(config): the document given to the schema, the
\* configuration returned (Null: none) and the type of the error thrown
validateAndSanitizeConfig(doc) ==
    IF SchemaAccepts(doc)
    THEN [doc |-> Some(doc),
          config |-> Some([doc EXCEPT !.app_password = Trim(@)]),
          error |-> "none"]
    ELSE [doc |-> Some(doc), config |-> Null, error |-> "INVALID_CREDENTIALS"]

loadFromEnvironment(e) ==
    IF e.site_url = Null \/ e.username = "" \/ ~Present(e.app_password)
    THEN [doc |-> Null, config |-> Null, error |-> "none"]
    ELSE LET rateLimitRpm == parseNumber(e.rpm, Null)
             rateLimitBurst == parseNumber(e.burst, Null)
         IN  validateAndSanitizeConfig(
                 [site_url |-> e.site_url[1],
                  username |-> e.username,
                  app_password |-> e.app_password[1],
                  verify_ssl |-> parseBoolean(e.verify_ssl, TRUE),
                  timeout |-> OrDefault(parseNumber(e.timeout, Some(DEFAULT_TIMEOUT)),
                                        DEFAULT_TIMEOUT),
                  rate_limit |->
                      IF rateLimitRpm # Null \/ rateLimitBurst # Null
                      THEN Some([requests_per_minute |-> OrDefault(rateLimitRpm, DEFAULT_RPM),
                                 burst_limit |-> OrDefault(rateLimitBurst, DEFAULT_BURST)])
                      ELSE Null])

\* WordPressConfigLoader.loadConfig(): throws INVALID_CREDENTIALS when the
\* environment gives no configuration
LoaderLoadConfig(e) ==
    LET r == loadFromEnvironment(e)
    IN  IF r.config = Null /\ r.error = "none"
        THEN [r EXCEPT !.error = "INVALID_CREDENTIALS"] ELSE r

EnvTimeouts == {Unset, NaNText, Digits(0), Digits(0 - 5), Digits(500),
                Digits(DEFAULT_TIMEOUT)}
EnvRates == {Unset, NaNText, Digits(0), Digits(0 - 5)} \cup
            {Digits(n) : n \in 1..MaxLimit}

LoaderEnvs ==
    [site_url : {Some([scheme |-> "https", host |-> "example.com"])},
     username : {"admin"},
     app_password : {Null, Some(GoodPassword)},
     verify_ssl : {"unset", "false"},
     timeout : EnvTimeouts, rpm : EnvRates, burst : EnvRates]

Load ==
    /\ ~ldr.done
    /\ ldr' = [done |-> TRUE, doc |-> LoaderLoadConfig(env).doc,
               config |-> LoaderLoadConfig(env).config,
               error |-> LoaderLoadConfig(env).error]
    /\ UNCHANGED env

InitLoader ==
    /\ config = ValidConfig(Null)
    /\ InitClient
    /\ IdleLimiter /\ IdleCtor /\ IdleTools
    /\ IdleAuth /\ IdleService /\ IdleTest /\ IdleWpClient
    /\ env \in LoaderEnvs
    /\ ldr = NoLoad

NextLoader ==
    \/ Load /\ UNCHANGED <<httpVars, limVars, ctorVars, toolVars,
                           authVars, svcVars, tstVars, wpcVars>>

SpecLoader ==
    /\ InitLoader
    /\ [][NextLoader]_vars

---------------------------------------------------------------------------
(* WordPressAuthService: the manager, the HTTP client and the connection   *)
(* tester it owns.  config, authState and lastAuthCheck are the fields of  *)
(* its manager while svc.authManager holds.                                *)

\* new WordPressHttpClient(authManager): the rate limiter it creates from
\* the manager's configuration and the base URL of its axios instance
NewHttpClient(cfg) ==
    [rateLimiter |->
         IF cfg.rate_limit # Null
         THEN Some([limit |-> cfg.rate_limit[1].requests_per_minute,
                    requests |-> <<>>])
         ELSE Null,
     baseURL |-> cfg.site_url]

\* updateAuthManager(authManager): the axios instance is created again,
\* the rate limiter is left as it is
updateAuthManager(client, cfg) == [client EXCEPT !.baseURL = cfg.site_url]

\* The outcome of a service operation, as the next state of svcOp.  live
\* tells whether an initialize() or updateConfig() has completed since the
\* construction of the service or its last dispose(); value is what the
\* operation returned, where that is looked at.
SvcResult(op, cfg, error, ctor) ==
    [op |-> op, cfg |-> cfg, error |-> error, ctor |-> ctor,
     initBefore |-> svc.isInitialized, clientBefore |-> svc.httpClient # Null,
     live |-> IF op \in {"initialize", "updateConfig"} /\ error = "none" THEN TRUE
              ELSE IF op = "dispose" THEN FALSE
              ELSE svcOp.live,
     value |-> "none"]

\* The service after an initialize() or updateConfig() that succeeded
Configured(cfg, client) ==
    [isInitialized |-> TRUE, authManager |-> TRUE, httpClient |-> Some(client),
     connectionTester |-> Some(NewHttpClient(cfg)), connectionInfo |-> "none"]

\* initialize()
SvcInitialize ==
    LET r == LoaderLoadConfig(env)
    IN  IF r.config = Null THEN
            /\ svcOp' = SvcResult("initialize", r.doc, r.error, "none")
            /\ UNCHANGED <<config, authState, lastAuthCheck, svc, sends>>
        ELSE IF validateConfiguration(r.config[1]) # "none" THEN
            /\ svcOp' = SvcResult("initialize", r.config,
                                  validateConfiguration(r.config[1]), "rejected")
            /\ UNCHANGED <<config, authState, lastAuthCheck, svc, sends>>
        ELSE
            /\ config' = r.config[1]
            /\ authState' = authenticate(r.config[1], now)
            /\ lastAuthCheck' = now
            /\ svc' = Configured(r.config[1], NewHttpClient(r.config[1]))
            /\ svcOp' = SvcResult("initialize", r.config, "none", "live")
            /\ sends' = <<>>

\* updateConfig(newConfig): an existing manager stores newConfig before it
\* validates it; an existing HTTP client is kept and given the manager
SvcUpdateConfig(newConfig) ==
    LET error == validateConfiguration(newConfig)
    IN  IF error # "none" THEN
            /\ config' = IF svc.authManager THEN newConfig ELSE config
            /\ svcOp' = SvcResult("updateConfig", Some(newConfig), error,
                                  IF svc.authManager THEN "none" ELSE "rejected")
            /\ UNCHANGED <<authState, lastAuthCheck, svc, sends>>
        ELSE
            /\ config' = newConfig
            /\ authState' = authenticate(newConfig, now)
            /\ lastAuthCheck' = now
            /\ svc' = Configured(newConfig,
                          IF svc.httpClient # Null
                          THEN updateAuthManager(svc.httpClient[1], newConfig)
                          ELSE NewHttpClient(newConfig))
            /\ svcOp' = SvcResult("updateConfig", Some(newConfig), "none",
                                  IF svc.authManager THEN "none" ELSE "live")
            /\ sends' = <<>>

\* dispose()
SvcDispose ==
    /\ svc.authManager
    /\ authState' = invalidateAuth.authState
    /\ lastAuthCheck' = invalidateAuth.lastAuthCheck
    /\ svc' = NoService
    /\ svcOp' = SvcResult("dispose", Null, "none", "none")
    /\ UNCHANGED <<config, sends>>

\* The HTTP client a request goes through: the one getHttpClient() returns
\* or the one the connection tester made for itself
Via(v) == IF v = "client" THEN svc.httpClient[1] ELSE svc.connectionTester[1]

\* The request interceptor's checkLimit() on the client's own rate limiter
AdmitRequest(client, t) ==
    IF client.rateLimiter = Null THEN [admitted |-> TRUE, client |-> client]
    ELSE LET rl == client.rateLimiter[1]
             chk == checkLimit(rl.requests, rl.limit, t)
         IN  [admitted |-> chk.admitted,
              client |-> [client EXCEPT !.rateLimiter =
                              Some([limit |-> rl.limit, requests |-> chk.requests])]]

WithClient(v, client) ==
    IF v = "client" THEN [svc EXCEPT !.httpClient = Some(client)]
    ELSE [svc EXCEPT !.connectionTester = Some(client)]

\* The authentication state after the interceptor made sure of it
EnsuredAuth ==
    IF isAuthenticated(authState, lastAuthCheck, now)
    THEN MgrFields
    ELSE [authState |-> authenticate(config, now), lastAuthCheck |-> now]

\* A request put on the wire through the axios instance of client
Sent(v, client) ==
    [via |-> v, time |-> now, url |-> client.baseURL,
     header |-> getAuthorizationHeader(EnsuredAuth.authState)[1]]

\* One request through the request interceptor of an HTTP client of the
\* service: admitted by the client's limiter, it is authenticated and sent.
\* (A resubmission after a 401 passes the interceptor like any request.)
SvcGet(v) ==
    /\ svc.isInitialized
    /\ LET a == AdmitRequest(Via(v), now)
       IN  /\ svc' = WithClient(v, a.client)
           /\ IF a.admitted THEN
                  /\ authState' = EnsuredAuth.authState
                  /\ lastAuthCheck' = EnsuredAuth.lastAuthCheck
                  /\ sends' = KeepLast(Append(sends, Sent(v, a.client)), MaxLimit + 1)
              ELSE UNCHANGED <<authState, lastAuthCheck, sends>>
    /\ UNCHANGED <<config, svcOp>>

\* getConnectionInfo() on an HTTP client of the service: get('/settings')
\* and get('/users/me') go through the interceptor together; when both were
\* admitted and answered, the endpoint listing is due
SvcGetConnectionInfo(v) ==
    /\ svc.isInitialized
    /\ svc.connectionInfo = "none"
    /\ LET a1 == AdmitRequest(Via(v), now)
           a2 == AdmitRequest(a1.client, now)
           s1 == IF a1.admitted THEN Append(sends, Sent(v, a1.client)) ELSE sends
           s2 == IF a2.admitted THEN Append(s1, Sent(v, a2.client)) ELSE s1
       IN  /\ sends' = KeepLast(s2, MaxLimit + 1)
           /\ IF a1.admitted \/ a2.admitted THEN
                  /\ authState' = EnsuredAuth.authState
                  /\ lastAuthCheck' = EnsuredAuth.lastAuthCheck
              ELSE UNCHANGED <<authState, lastAuthCheck>>
           /\ \E answered \in BOOLEAN :
                  svc' = [WithClient(v, a2.client) EXCEPT !.connectionInfo =
                             IF a1.admitted /\ a2.admitted /\ answered
                             THEN "listing" ELSE "none"]
    /\ UNCHANGED <<config, svcOp>>

\* getConnectionInfo(), the endpoint listing: axios.get() on the site URL,
\* outside the client's axios instance and its interceptors
SvcEndpointListing ==
    /\ svc.connectionInfo = "listing"
    /\ sends' = KeepLast(Append(sends, [via |-> "axios", time |-> now,
                                        url |-> config.site_url,
                                        header |-> NoHeader]),
                         MaxLimit + 1)
    /\ svc' = [svc EXCEPT !.connectionInfo = "none"]
    /\ UNCHANGED <<config, authState, lastAuthCheck, svcOp>>

SvcTick ==
    /\ now < MaxSvcTicks * TickMs
    /\ Tick
    /\ UNCHANGED svcVars

\* The environments a service is started in
ServiceEnvs ==
    [site_url : {Some([scheme |-> "https", host |-> "example.com"])},
     username : {"admin"},
     app_password : {Some(GoodPassword),
                     Some([alnum |-> 23, space |-> 0, other |-> 1]),
                     Some([alnum |-> 0, space |-> 3, other |-> 0])},
     verify_ssl : {"unset"},
     timeout : {Unset},
     rpm : {Unset, Digits(1)},
     burst : {Unset}]

\* The configurations updateConfig() is called with
NewConfigs ==
    {[ValidConfig(rl) EXCEPT !.username = "editor"] : rl \in RateLimits} \cup
    {[ValidConfig(Null) EXCEPT !.app_password = [alnum |-> 25, space |-> 5, other |-> 0]],
     [ValidConfig(Null) EXCEPT !.site_url = [scheme |-> "http", host |-> "example.com"],
                               !.app_password = [alnum |-> 23, space |-> 5, other |-> 0]]}

InitService ==
    /\ config = ValidConfig(Null)
    /\ InitClient
    /\ IdleLimiter /\ IdleCtor /\ IdleTools
    /\ IdleAuth /\ IdleTest /\ IdleWpClient
    /\ env \in ServiceEnvs
    /\ ldr = NoLoad
    /\ IdleService

SvcRest == <<now, requests, retryCount, pc, sent, header, respLog, alone, outcome>>

NextService ==
    \/ SvcInitialize /\ UNCHANGED <<SvcRest, limVars, ctorVars, toolVars, authVars, ldrVars, tstVars, wpcVars>>
    \/ \E newConfig \in NewConfigs :
          SvcUpdateConfig(newConfig) /\ UNCHANGED <<SvcRest, limVars, ctorVars, toolVars, authVars, ldrVars, tstVars, wpcVars>>
    \/ SvcDispose /\ UNCHANGED <<SvcRest, limVars, ctorVars, toolVars, authVars, ldrVars, tstVars, wpcVars>>
    \/ \E v \in {"client", "tester"} :
          SvcGet(v) /\ UNCHANGED <<SvcRest, limVars, ctorVars, toolVars, authVars, ldrVars, tstVars, wpcVars>>
    \/ \E v \in {"client", "tester"} :
          SvcGetConnectionInfo(v) /\ UNCHANGED <<SvcRest, limVars, ctorVars, toolVars, authVars, ldrVars, tstVars, wpcVars>>
    \/ SvcEndpointListing /\ UNCHANGED <<SvcRest, limVars, ctorVars, toolVars, authVars, ldrVars, tstVars, wpcVars>>
    \/ SvcTick /\ UNCHANGED <<limVars, ctorVars, toolVars, authVars, ldrVars, tstVars, wpcVars>>

SpecService == InitService /\ [][NextService]_vars

\* The life cycle of the service on its own, over more environments and
\* configurations
LifecycleEnvs ==
    [site_url : {Some([scheme |-> sch, host |-> "example.com"]) : sch \in {"https", "http"}},
     username : {"admin"},
     app_password : {Null} \cup {Some(p) : p \in Passwords}
                    \cup {Some([alnum |-> 0, space |-> 3, other |-> 0])},
     verify_ssl : {"unset"},
     timeout : {Unset},
     rpm : {Unset} \cup {Digits(n) : n \in 1..MaxLimit},
     burst : {Unset}]

LifecycleConfigs ==
    {cfg \in CandidateConfigs :
        /\ cfg.site_url.scheme \in {"https", "http"}
        /\ cfg.site_url.host = "example.com"
        /\ cfg.verify_ssl
        /\ cfg.timeout = DEFAULT_TIMEOUT}

InitLifecycle ==
    /\ config = ValidConfig(Null)
    /\ InitClient
    /\ IdleLimiter /\ IdleCtor /\ IdleTools
    /\ IdleAuth /\ IdleTest /\ IdleWpClient
    /\ env \in LifecycleEnvs
    /\ ldr = NoLoad
    /\ IdleService

NextLifecycle ==
    \/ SvcInitialize /\ UNCHANGED <<SvcRest, limVars, ctorVars, toolVars, authVars, ldrVars, tstVars, wpcVars>>
    \/ \E newConfig \in LifecycleConfigs :
          SvcUpdateConfig(newConfig) /\ UNCHANGED <<SvcRest, limVars, ctorVars, toolVars, authVars, ldrVars, tstVars, wpcVars>>
    \/ SvcDispose /\ UNCHANGED <<SvcRest, limVars, ctorVars, toolVars, authVars, ldrVars, tstVars, wpcVars>>

SpecLifecycle == InitLifecycle /\ [][NextLifecycle]_vars

---------------------------------------------------------------------------
(* The operations of the service that need it initialized *)

\* Mutant: the guard lets every call through
ServiceEnsureInitializedSkipped == "none"

\* WordPressAuthService.ensureInitialized(): the type of the error it
\* throws, "none" if it returns
ServiceEnsureInitialized ==
    IF ~svc.isInitialized THEN "UNKNOWN_ERROR" ELSE "none"

\* Operations that return a field of the service or a value computed from
\* its manager
AccessorOps == {"getHttpClient", "getAuthManager", "getConfig",
                "getSecurityValidation"}

\* Operations handed on to the connection tester
TesterOps == {"testConnection", "quickTest", "testFunctionality",
              "getConnectionReport"}

\* Tester operations that begin with authManager.authenticate()
AuthenticatingOps == {"testConnection", "quickTest", "getConnectionReport"}

GuardedOps == AccessorOps \cup TesterOps \cup {"reAuthenticate"}

\* getHttpClient(), getAuthManager(), getConfig(), getSecurityValidation()
SvcAccessor(op) ==
    /\ svcOp' = SvcResult(op, Null, ServiceEnsureInitialized, "none")
    /\ UNCHANGED <<config, authState, lastAuthCheck, svc, sends>>

\* reAuthenticate()
SvcReAuthenticate ==
    LET error == ServiceEnsureInitialized
    IN  /\ svcOp' = SvcResult("reAuthenticate", Null, error, "none")
        /\ IF error = "none" THEN
               /\ authState' = authenticate(config, now)
               /\ lastAuthCheck' = now
           ELSE UNCHANGED <<authState, lastAuthCheck>>
        /\ UNCHANGED <<config, svc, sends>>

\* testConnection(), quickTest(), testFunctionality(), getConnectionReport():
\* after the guard the connection tester runs the test; of the test, its
\* authenticate() and its first request through the tester's HTTP client
\* are followed here (later requests go the way of SvcGet).  Calling the
\* tester when there is none is a TypeError, which the service catches.
SvcTesterOp(op) ==
    LET error == ServiceEnsureInitialized
    IN  IF error # "none" THEN
            /\ svcOp' = SvcResult(op, Null, error, "none")
            /\ UNCHANGED <<config, authState, lastAuthCheck, svc, sends>>
        ELSE IF svc.connectionTester = Null THEN
            /\ svcOp' = SvcResult(op, Null, "none", "none")
            /\ UNCHANGED <<config, authState, lastAuthCheck, svc, sends>>
        ELSE
            LET a == AdmitRequest(Via("tester"), now)
                authenticated ==
                    IF op \in AuthenticatingOps
                    THEN [authState |-> authenticate(config, now), lastAuthCheck |-> now]
                    ELSE IF a.admitted THEN EnsuredAuth
                    ELSE MgrFields
            IN  /\ svcOp' = SvcResult(op, Null, "none", "none")
                /\ authState' = authenticated.authState
                /\ lastAuthCheck' = authenticated.lastAuthCheck
                /\ svc' = WithClient("tester", a.client)
                /\ sends' = IF a.admitted
                            THEN KeepLast(Append(sends,
                                     [via |-> "tester", time |-> now,
                                      url |-> a.client.baseURL,
                                      header |-> getAuthorizationHeader(
                                                     authenticated.authState)[1]]),
                                     MaxLimit + 1)
                            ELSE sends
                /\ UNCHANGED config

\* isAuthenticated()
SvcIsAuthenticated ==
    /\ svcOp' = [SvcResult("isAuthenticated", Null, "none", "none") EXCEPT
                    !.value = IF ~svc.isInitialized \/ ~svc.authManager THEN "false"
                              ELSE IF isAuthenticated(authState, lastAuthCheck, now)
                                   THEN "true" ELSE "false"]
    /\ UNCHANGED <<config, authState, lastAuthCheck, svc, sends>>

\* invalidateAuth() of the service
SvcInvalidateAuth ==
    /\ svcOp' = SvcResult("invalidateAuth", Null, "none", "none")
    /\ IF svc.authManager THEN
           /\ authState' = invalidateAuth.authState
           /\ lastAuthCheck' = invalidateAuth.lastAuthCheck
       ELSE UNCHANGED <<authState, lastAuthCheck>>
    /\ UNCHANGED <<config, svc, sends>>

\* The environments and configurations of this specification
GuardEnvs == {e \in LifecycleEnvs : e.rpm \in {Unset, Digits(1)}}

GuardConfigs ==
    {cfg \in LifecycleConfigs : cfg.app_password \in {GoodPassword,
                                   [alnum |-> 23, space |-> 5, other |-> 0]}}

InitGuard ==
    /\ config = ValidConfig(Null)
    /\ InitClient
    /\ IdleLimiter /\ IdleCtor /\ IdleTools
    /\ IdleAuth /\ IdleTest /\ IdleWpClient
    /\ env \in GuardEnvs
    /\ ldr = NoLoad
    /\ IdleService

NextGuard ==
    \/ SvcInitialize /\ UNCHANGED <<SvcRest, limVars, ctorVars, toolVars, authVars, ldrVars, tstVars, wpcVars>>
    \/ \E newConfig \in GuardConfigs :
          SvcUpdateConfig(newConfig) /\ UNCHANGED <<SvcRest, limVars, ctorVars, toolVars, authVars, ldrVars, tstVars, wpcVars>>
    \/ SvcDispose /\ UNCHANGED <<SvcRest, limVars, ctorVars, toolVars, authVars, ldrVars, tstVars, wpcVars>>
    \/ \E op \in AccessorOps :
          SvcAccessor(op) /\ UNCHANGED <<SvcRest, limVars, ctorVars, toolVars, authVars, ldrVars, tstVars, wpcVars>>
    \/ SvcReAuthenticate /\ UNCHANGED <<SvcRest, limVars, ctorVars, toolVars, authVars, ldrVars, tstVars, wpcVars>>
    \/ \E op \in TesterOps :
          SvcTesterOp(op) /\ UNCHANGED <<SvcRest, limVars, ctorVars, toolVars, authVars, ldrVars, tstVars, wpcVars>>
    \/ SvcIsAuthenticated /\ UNCHANGED <<SvcRest, limVars, ctorVars, toolVars, authVars, ldrVars, tstVars, wpcVars>>
    \/ SvcInvalidateAuth /\ UNCHANGED <<SvcRest, limVars, ctorVars, toolVars, authVars, ldrVars, tstVars, wpcVars>>

SpecGuard == InitGuard /\ [][NextGuard]_vars

---------------------------------------------------------------------------
(* The WordPressAuthenticationManager with its configuration updated while *)
(* it is in use                                                            *)

getSiteUrl(cfg) == cfg.site_url

\* getApiBaseUrl(): the site URL and the path appended to it
getApiBaseUrl(cfg) == [site |-> cfg.site_url, path |-> "/wp-json/wp/v2"]

\* The configurations updateConfig() is called with on a manager
ManagerConfigs ==
    LifecycleConfigs \cup {[cfg EXCEPT !.username = "editor"] : cfg \in LifecycleConfigs}

\* updateConfig(newConfig): the configuration is stored, then validated; a
\* configuration that passes is authenticated with
MgrUpdateConfig(newConfig) ==
    LET error == validateConfiguration(newConfig)
    IN  /\ config' = newConfig
        /\ IF error = "none" THEN
               /\ authState' = authenticate(newConfig, now)
               /\ lastAuthCheck' = now
           ELSE UNCHANGED <<authState, lastAuthCheck>>
        /\ mgrOp' = [op |-> "updateConfig", prevOp |-> mgrOp.op,
                     life |-> IF error = "none" THEN "authenticated" ELSE mgrOp.life,
                     before |-> MgrFields,
                     result |-> [thrown |-> error, value |-> NoHeader]]
        /\ UNCHANGED <<now, requests, retryCount, pc, sent, header, respLog,
                       alone, outcome>>

\* What handleResponseError does to the manager on a 401 response:
\* invalidateAuth(), followed by authenticate() when the request is retried
MgrUnauthorizedResponse ==
    /\ \E retried \in BOOLEAN :
          /\ authState' = IF retried THEN authenticate(config, now)
                          ELSE invalidateAuth.authState
          /\ lastAuthCheck' = IF retried THEN now ELSE invalidateAuth.lastAuthCheck
          /\ mgrOp' = [op |-> "401", prevOp |-> mgrOp.op,
                       life |-> IF retried THEN "authenticated" ELSE "invalidated",
                       before |-> MgrFields, result |-> NoHeaderResult]
    /\ UNCHANGED <<now, config, requests, retryCount, pc, sent, header,
                   respLog, alone, outcome>>

NextManager ==
    \/ MgrAuthenticate /\ UNCHANGED <<limVars, ctorVars, toolVars, ldrVars, svcVars, tstVars, wpcVars>>
    \/ MgrInvalidateAuth /\ UNCHANGED <<limVars, ctorVars, toolVars, ldrVars, svcVars, tstVars, wpcVars>>
    \/ \E newConfig \in ManagerConfigs :
          MgrUpdateConfig(newConfig) /\ UNCHANGED <<limVars, ctorVars, toolVars, ldrVars, svcVars, tstVars, wpcVars>>
    \/ MgrUnauthorizedResponse /\ UNCHANGED <<limVars, ctorVars, toolVars, ldrVars, svcVars, tstVars, wpcVars>>
    \/ MgrTick /\ UNCHANGED <<limVars, ctorVars, toolVars, ldrVars, svcVars, tstVars, wpcVars>>

SpecManager == InitAuth /\ [][NextManager]_vars

---------------------------------------------------------------------------
(* Properties of the HTTP client wrapper *)

Statuses(log) == [i \in 1..Len(log) |-> log[i].status]

Tokens(msg) == {msg[i] : i \in 1..Len(msg)}

LastResponse(log) == log[Len(log)]

Authenticated == isAuthenticated(authState, lastAuthCheck, now)

\* A call has just settled after exactly the responses 401 and then 200
RetriedThenOk == outcome.settled /\ Statuses(outcome.log) = <<401, 200>>

\* C1 (as stated): whenever a request's first response is 401 and the
\* response to its resubmission is 200, the caller receives the successful
\* response, exactly one resubmission was performed, and the Authentication
\* Manager is authenticated afterwards.
C1_RetryThenOkAuthenticated ==
    RetriedThenOk =>
        /\ outcome.result.state = "fulfilled"
        /\ outcome.sent = 2
        /\ Authenticated

\* C1 (amended): whenever a request's first response is 401 and the response
\* to its resubmission is 200, the caller receives the successful response
\* and exactly one resubmission was performed; if no other request was in
\* flight meanwhile, the Authentication Manager is authenticated afterwards.
C1_RetryThenOk ==
    RetriedThenOk =>
        /\ outcome.result.state = "fulfilled"
        /\ outcome.sent = 2
        /\ outcome.alone => Authenticated

C1_Witness ==
    /\ RetriedThenOk
    /\ outcome.alone
    /\ outcome.result.state = "fulfilled"
    /\ Authenticated

\* C2: with no other request in flight, a request answered 401 whose single
\* resubmission is answered 401 too settles with UNAUTHORIZED (status 401),
\* and no third attempt is sent for it.
C2_SecondUnauthorizedSurfaces ==
    /\ (outcome.settled /\ outcome.alone
            /\ Statuses(outcome.log) = <<401, 401>>) =>
           /\ outcome.result.state = "rejected"
           /\ outcome.result.type = "UNAUTHORIZED"
           /\ outcome.result.httpStatus = 401
           /\ outcome.sent = 2
    /\ \A r \in Calls :
           (alone[r] /\ InProgress(r)) => (sent[r] <= 2 /\ Len(respLog[r]) <= 1)

C2_Witness ==
    /\ outcome.settled
    /\ outcome.alone
    /\ Statuses(outcome.log) = <<401, 401>>
    /\ outcome.result.type = "UNAUTHORIZED"

\* C4: a call rejected by the local rate limiter in the request interceptor
\* reaches the caller as RATE_LIMITED, not as another type of the taxonomy.
C4_LocalRejectionStaysRateLimited ==
    (outcome.settled /\ outcome.thrown = "RATE_LIMITED") =>
        outcome.result.type = "RATE_LIMITED"

\* C5: the message of every error returned to the caller contains neither
\* the configured application password nor a Basic credential string.
C5_NoCredentialInMessage ==
    (outcome.settled /\ outcome.result.state = "rejected") =>
        (PW \notin Tokens(outcome.result.message)
            /\ BASIC \notin Tokens(outcome.result.message))

\* C6: a transport failure with code ENOTFOUND or ECONNREFUSED is surfaced
\* to the caller as NETWORK_ERROR.
C6_ConnectFailureIsNetworkError ==
    (outcome.settled /\ outcome.log # <<>>
        /\ LastResponse(outcome.log).code \in {"ENOTFOUND", "ECONNREFUSED"}) =>
        outcome.result.type = "NETWORK_ERROR"

\* C7: every failed response is classified into one type of the taxonomy by
\* its status: 403 gives FORBIDDEN with status 403, a status >= 500 gives
\* NETWORK_ERROR with that status, and every other 4xx status apart from
\* 401, 403 and 429 gives UNKNOWN_ERROR with that status.
C7_ClassifiedByStatus ==
    (outcome.settled /\ outcome.log # <<>>
        /\ LastResponse(outcome.log).status >= 300) =>
        LET st == LastResponse(outcome.log).status
            res == outcome.result
        IN  /\ res.state = "rejected"
            /\ res.type \in AuthErrorType
            /\ st = 403 => (res.type = "FORBIDDEN" /\ res.httpStatus = 403)
            /\ st >= 500 => (res.type = "NETWORK_ERROR" /\ res.httpStatus = st)
            /\ (st \in 400..499 /\ st \notin {401, 403, 429}) =>
                   (res.type = "UNKNOWN_ERROR" /\ res.httpStatus = st)

C7_Witness ==
    /\ outcome.settled
    /\ outcome.log # <<>>
    /\ LastResponse(outcome.log).status = 503
    /\ outcome.result.type = "NETWORK_ERROR"
    /\ outcome.result.httpStatus = 503

\* C8: a 429 response is surfaced as RATE_LIMITED with status 429; the
\* request is not resubmitted, and the authentication state and the retry
\* counter are as they were before the response.
C8_RemoteRateLimitNoRetry ==
    /\ (outcome.settled /\ outcome.log # <<>>
            /\ LastResponse(outcome.log).status = 429) =>
           /\ outcome.result.state = "rejected"
           /\ outcome.result.type = "RATE_LIMITED"
           /\ outcome.result.httpStatus = 429
           /\ retryCount = outcome.retryBefore
           /\ authState = outcome.authBefore
    /\ \A r \in Calls : \A i \in 1..Len(respLog[r]) :
           respLog[r][i].status # 429

C8_Witness ==
    /\ outcome.settled
    /\ outcome.log # <<>>
    /\ LastResponse(outcome.log).status = 429
    /\ outcome.result.type = "RATE_LIMITED"


---------------------------------------------------------------------------
(* Properties of the RateLimiter *)

\* The n-th latest admission before the check
NthLatest(prior, n) == prior[Len(prior) - n + 1]

\* C3: with limit N and a 60-second window, once N checks were admitted
\* within one window, a check made while the oldest of them is still inside
\* the window is rejected with RATE_LIMITED; a check made more than one
\* window after the N-th admission is admitted again.
C3_WindowAdmission ==
    (lastCheck.made /\ Len(lastCheck.prior) >= Limit) =>
        /\ now - NthLatest(lastCheck.prior, Limit) < WINDOW_MS =>
               (~lastCheck.admitted /\ lastCheck.error = "RATE_LIMITED")
        /\ now - NthLatest(lastCheck.prior, 1) > WINDOW_MS =>
               lastCheck.admitted

C3_Witness ==
    /\ lastCheck.made
    /\ everRejected
    /\ Len(lastCheck.prior) >= Limit
    /\ now - NthLatest(lastCheck.prior, 1) > WINDOW_MS
    /\ lastCheck.admitted


---------------------------------------------------------------------------
(* Properties of construction and of the tool path *)

\* C9: for every configuration whose site URL is not HTTPS, validateSecurity()
\* returns isSecure = false with at least one issue, and constructing the
\* manager fails with INVALID_URL, leaving no manager instance.
C9_NonHttpsRejected ==
    (mgr # "absent" /\ config.site_url.scheme # "https") =>
        /\ ~security.isSecure
        /\ Len(security.issues) >= 1
        /\ mgr = "rejected"
        /\ ctorError = "INVALID_URL"

C9_Witness ==
    /\ mgr = "rejected"
    /\ config.site_url.scheme = "http"
    /\ ctorError = "INVALID_URL"
    /\ ~security.isSecure

\* C10: a configuration whose site URL is not an https URL is rejected at
\* load time: no configuration is held, no tool is made available and no
\* HTTP request is ever sent to the site.
C10_NonHttpsNeverLoaded ==
    (srv # "new" /\ rawConfig.site_url.scheme # "https") =>
        /\ cmConfig = Null
        /\ wpClient = Null
        /\ ~toolsListed
        /\ wire = {}

\* C17: when no valid configuration was loaded at startup, then at every
\* later time no configuration is held, no WordPress client exists, no HTTP
\* request was sent, every ListTools answer is the empty list and every
\* CallTool answer is an isError result.
C17_UnconfiguredServesNothing ==
    (srv # "new" /\ loadConfig(rawConfig) = Null) =>
        /\ cmConfig = Null
        /\ wpClient = Null
        /\ wire = {}
        /\ ~toolsListed
        /\ toolAnswer \in {"none", "tools:empty", "call:isError"}

C17_Witness ==
    /\ srv = "serving"
    /\ rawConfig.source # "none"
    /\ loadConfig(rawConfig) = Null
    /\ toolAnswer = "call:isError"
    /\ wpClient = Null

---------------------------------------------------------------------------
(* Properties of the WordPressAuthenticationManager *)

\* C12: from the completion of authenticate() until invalidateAuth() is
\* called, isAuthenticated() is true at every time, also more than five
\* minutes after the authentication; from invalidateAuth() until the next
\* authenticate() it is false.  The passing of time does not change it.
C12_AuthenticatedUntilInvalidated ==
    /\ mgrOp.life = "authenticated" => Authenticated
    /\ mgrOp.life = "invalidated" => ~Authenticated

C12_Witness ==
    /\ mgrOp.life = "authenticated"
    /\ lastAuthCheck # NoTime
    /\ now - lastAuthCheck > AUTH_CACHE_DURATION
    /\ Authenticated

\* C13: invalidateAuth() leaves the empty authentication state (flag false,
\* no credentials, no last-verified time), and a second call in a row leaves
\* what the first left; getAuthorizationHeader() throws UNAUTHORIZED exactly
\* when no credentials are held, and otherwise returns "Basic" followed by
\* the stored credential, changing nothing.
C13_InvalidateAndHeader ==
    /\ mgrOp.op = "invalidateAuth" =>
           /\ ~authState.isAuthenticated
           /\ authState.credentials = Null
           /\ authState.lastVerified = NoTime
           /\ mgrOp.prevOp = "invalidateAuth" => MgrFields = mgrOp.before
    /\ mgrOp.op = "getAuthorizationHeader" =>
           /\ MgrFields = mgrOp.before
           /\ (mgrOp.result.thrown = "UNAUTHORIZED") <=> (authState.credentials = Null)
           /\ authState.credentials # Null =>
                  /\ mgrOp.result.thrown = "none"
                  /\ mgrOp.result.value =
                         [scheme |-> "Basic", token |-> authState.credentials[1].password]

C13_Witness ==
    /\ mgrOp.op = "getAuthorizationHeader"
    /\ mgrOp.prevOp = "invalidateAuth"
    /\ mgrOp.before.authState = EmptyAuthState
    /\ mgrOp.result.thrown = "UNAUTHORIZED"

---------------------------------------------------------------------------
(* Properties of the configuration loader and of the schema *)

NonPositive(value) == value.kind = "digits" /\ value.val <= 0

\* C19: a configuration in which a numeric setting (timeout, requests per
\* minute, burst) is given and not positive, 0 included, fails validation:
\* the loader returns no configuration and throws.  In a configuration it
\* returns, a rate-limit sub-field that was given as a number has that
\* value; the defaults 60 and 10 stand only for a sub-field not given.
C19_NonPositiveNumbersRejected ==
    (ldr.done /\ Present(env.app_password)) =>
        /\ (NonPositive(env.timeout) \/ NonPositive(env.rpm) \/ NonPositive(env.burst)) =>
               (ldr.config = Null /\ ldr.error # "none")
        /\ (ldr.config # Null /\ ldr.config[1].rate_limit # Null) =>
               /\ env.rpm.kind = "digits" =>
                      ldr.config[1].rate_limit[1].requests_per_minute = env.rpm.val
               /\ env.burst.kind = "digits" =>
                      ldr.config[1].rate_limit[1].burst_limit = env.burst.val

\* C20: WordPressConfigSchema rejects every configuration whose timeout is
\* less than 1000 ms, and accepts one with the default timeout of 30000 ms.
C20_ShortTimeoutRejected ==
    (ldr.done /\ ldr.doc # Null) =>
        /\ ldr.doc[1].timeout < 1000 => ldr.config = Null
        /\ (ldr.doc[1].timeout = DEFAULT_TIMEOUT /\ ldr.doc[1].rate_limit = Null) =>
               ldr.config # Null

---------------------------------------------------------------------------
(* Properties of WordPressClient.checkRateLimit *)

\* The admissions made within the 60 seconds that end now
RecentAdmits == SelectSeq(wpAdmits, LAMBDA t : t > now - WP_RESET_MS)

\* C16: with rate_limit configured, the calls admitted by checkRateLimit in
\* any rolling 60-second interval are at most requests_per_minute.
C16_RollingWindowBound ==
    (wpClient # Null /\ wpClient[1].rate_limit # Null) =>
        Len(RecentAdmits) <= wpClient[1].rate_limit[1].requests_per_minute

---------------------------------------------------------------------------
(* Properties of the connection tester *)

\* C18: testConnection() returns success = true only if all five steps
\* passed: security validation, authenticate(), the root probe, the
\* /users/me probe and the site-metadata fetch.
C18_SuccessOnlyIfAllStepsPass ==
    (tst.done /\ tst.success) =>
        /\ tst.steps.security = "passed"
        /\ tst.steps.auth = "passed"
        /\ tst.steps.root = "passed"
        /\ tst.steps.identity = "passed"
        /\ tst.steps.metadata = "passed"

---------------------------------------------------------------------------
(* Properties of the WordPressAuthService *)

\* The whitespace-stripped password is not exactly 24 characters long or
\* has a character that is not alphanumeric
BadPassword(password) ==
    password.alnum + password.other # 24 \/ password.other # 0

RecentSends == SelectSeq(sends, LAMBDA snd : snd.time > now - WINDOW_MS)

\* C14: with a rate-limit policy configured, the requests a service sent to
\* the site in any rolling 60-second window since initialize() set it up,
\* through its HTTP client and its connection tester together and with the
\* endpoint listing of getConnectionInfo, are at most requests_per_minute.
C14_OneLimiterPerSite ==
    (svc.isInitialized /\ svcOp.op = "initialize" /\ svcOp.error = "none"
        /\ config.rate_limit # Null) =>
        Len(RecentSends) <= config.rate_limit[1].requests_per_minute

\* C15: after updateConfig(newConfig) succeeded, the service's HTTP client
\* enforces the rate-limit policy of newConfig (none if it has none) and
\* sends its requests to the new base URL with the new credentials.
C15_UpdateRederivesClient ==
    (svcOp.op = "updateConfig" /\ svcOp.error = "none") =>
        LET client == svc.httpClient[1]
            newConfig == svcOp.cfg[1]
        IN  /\ (client.rateLimiter = Null) <=> (newConfig.rate_limit = Null)
            /\ client.rateLimiter # Null =>
                   client.rateLimiter[1].limit =
                       newConfig.rate_limit[1].requests_per_minute
            /\ client.baseURL = newConfig.site_url
            /\ \A i \in 1..Len(sends) :
                   sends[i].via = "client" =>
                       /\ sends[i].url = newConfig.site_url
                       /\ sends[i].header = generateAuthHeader(newConfig)

---------------------------------------------------------------------------
(* Properties of concurrent requests on one client *)

\* C21: under any interleaving of the requests in progress on one client, no
\* request is put on the wire more than twice: its original attempt and at
\* most one resubmission.
C21_AtMostTwoSends ==
    \A r \in Calls : sent[r] <= 2

\* C22: a request whose first response is 401 is resubmitted once before an
\* error is surfaced for it, whatever earlier requests went through: when it
\* settles without having been rejected locally, it was sent twice.
C22_EveryRequestGetsItsRetry ==
    (outcome.settled /\ outcome.thrown = "none" /\ outcome.log # <<>>
        /\ outcome.log[1].status = 401) =>
        outcome.sent = 2

\* C23: a request that passed the rate-limit admission is never failed
\* locally for lack of credentials: between its authentication check and the
\* attachment of its header the manager holds credentials, and every request
\* on the wire carries the Basic header of the configuration.
C23_NoInvalidationBeforeAttach ==
    /\ outcome.settled => outcome.thrown # "UNAUTHORIZED"
    /\ \A r \in Calls :
          /\ pc[r] = "attachHeader" => authState.credentials # Null
          /\ pc[r] = "inflight" => header[r] = generateAuthHeader(config)

\* A request is on the wire with its header while the 401 of another request
\* has just left the manager without credentials
C23_Witness ==
    /\ outcome.settled
    /\ outcome.result.type = "UNAUTHORIZED"
    /\ authState.credentials = Null
    /\ \E r \in Calls :
          pc[r] = "inflight" /\ header[r] = generateAuthHeader(config)

\* The admissions within the 60 seconds that end now
RecentAdmissions == SelectSeq(admits, LAMBDA time : time > now - WINDOW_MS)

\* C24: however the concurrent requests on one client interleave at their
\* await points, the number of them the limiter admitted within one window
\* is at most the limit N.
C24_ConcurrentAdmissionsBounded ==
    Len(RecentAdmissions) <= Limit

\* Of two requests in progress together, one was admitted and the other has
\* just been rejected by the limiter
C24_Witness ==
    /\ outcome.settled
    /\ outcome.thrown = "RATE_LIMITED"
    /\ ~outcome.alone
    /\ Len(RecentAdmissions) = Limit
    /\ \E r \in Calls : pc[r] \in {"ensureAuth", "attachHeader", "inflight"}

\* C25: after every checkLimit() call, admitted or rejected, every stored
\* timestamp t satisfies now - window < t <= now, the stored timestamps are
\* in non-decreasing order and there are at most N of them.
C25_StoredTimestamps ==
    lastCheck.made =>
        /\ \A i \in 1..Len(requests) :
              now - WINDOW_MS < requests[i] /\ requests[i] <= now
        /\ \A i \in 1..Len(requests) : \A j \in i..Len(requests) :
              requests[i] <= requests[j]
        /\ Len(requests) <= Limit

\* A check has just dropped the timestamp of an earlier admission that went
\* out of the window, and stored its own
C25_Witness ==
    /\ lastCheck.made
    /\ lastCheck.admitted
    /\ \E i \in 1..Len(lastCheck.prior) : lastCheck.prior[i] <= now - WINDOW_MS
    /\ Len(requests) >= 1
    /\ requests[Len(requests)] = now

\* C26: when the limiter rejects a call in the request interceptor, the call
\* ends there: it is not put on the wire then or later, authenticate() is not
\* invoked, the authentication state and the retry counter stay as they
\* were, and the limiter's timestamps are the pruned ones, with no entry for
\* the rejected call.
C26_RejectedCallLeavesNoTrace ==
    [][\A r \in Calls :
          (pc[r] = "checkLimit" /\ pc'[r] \notin {"checkLimit", "ensureAuth"}) =>
              /\ pc'[r] = "idle"
              /\ outcome'.settled /\ outcome'.result.state = "rejected"
              /\ outcome'.sent = sent[r]
              /\ authState' = authState
              /\ lastAuthCheck' = lastAuthCheck
              /\ retryCount' = retryCount
              /\ requests' = Prune(requests, now)
              /\ Len(requests') <= Limit]_vars

\* A call was rejected by the limiter while the manager was authenticated
C26_Witness ==
    /\ outcome.settled
    /\ outcome.thrown = "RATE_LIMITED"
    /\ outcome.authBefore.isAuthenticated
    /\ authState.isAuthenticated
    /\ Len(requests) = Limit

---------------------------------------------------------------------------
(* Properties of the rendering of tool errors *)

\* The message occurs in the text as it is
ContainsMessage(text, message) ==
    \E i \in 1..Len(text) :
        /\ i + Len(message) - 1 <= Len(text)
        /\ SubSeq(text, i, i + Len(message) - 1) = message

\* C27: when the client's call made for a tool fails with a classified
\* WordPress error (429, 404, 403, ...), callTool returns an isError result
\* whose text contains the message of that error and no placeholder such as
\* "Unknown error".
C27_ClassifiedErrorRendered ==
    (toolCall.done /\ toolCall.thrown # Null
        /\ toolCall.thrown[1].origin = "handleApiError") =>
        /\ toolCall.isError
        /\ ContainsMessage(toolCall.text, toolCall.thrown[1].message)
        /\ \A i \in 1..Len(toolCall.text) : toolCall.text[i] # "Unknown error"

---------------------------------------------------------------------------
(* Properties of the manager under configuration updates *)

\* C28: an updateConfig(newConfig) that fails validation leaves the manager
\* as it was: the configuration it holds, hence getSiteUrl() and
\* getApiBaseUrl(), and its authentication state are unchanged, and the
\* credentials it holds are those of the configuration it holds.
C28_FailedUpdateChangesNothing ==
    [][(mgrOp'.op = "updateConfig" /\ mgrOp'.result.thrown # "none") =>
          /\ config' = config
          /\ getSiteUrl(config') = getSiteUrl(config)
          /\ getApiBaseUrl(config') = getApiBaseUrl(config)
          /\ authState' = authState
          /\ lastAuthCheck' = lastAuthCheck
          /\ authState'.credentials # Null =>
                 authState'.credentials[1].password = generateAuthHeader(config').token]_vars

\* C29: whatever sequence of authenticate(), invalidateAuth(), updateConfig()
\* and 401 responses the manager went through, its authentication state is
\* all set or all empty: the flag is true exactly when credentials are held,
\* when the last-verified time is set and when the last-check time is set.
C29_AuthStateAllOrNothing ==
    /\ authState.isAuthenticated <=> authState.credentials # Null
    /\ authState.isAuthenticated <=> authState.lastVerified # NoTime
    /\ authState.isAuthenticated <=> lastAuthCheck # NoTime

\* The manager was invalidated by a 401 after an update of its configuration
\* had authenticated it
C29_Witness ==
    /\ mgrOp.op = "401"
    /\ mgrOp.before.authState.isAuthenticated
    /\ mgrOp.before.authState.credentials[1].username = "editor"
    /\ ~authState.isAuthenticated
    /\ authState.credentials = Null
    /\ lastAuthCheck = NoTime

---------------------------------------------------------------------------
(* Properties of the service's guard *)

\* C30: an operation of the service that needs it initialized succeeds only
\* if an initialize() or updateConfig() has completed since construction or
\* the last dispose(), and otherwise fails with UNKNOWN_ERROR; isAuthenticated()
\* then returns false; after dispose() the service holds no manager, no HTTP
\* client and no connection tester.
C30_GuardedByInitialization ==
    /\ svcOp.op \in GuardedOps =>
           /\ svcOp.error = "none" => svcOp.live
           /\ ~svcOp.live => svcOp.error = "UNKNOWN_ERROR"
    /\ (svcOp.op = "isAuthenticated" /\ ~svcOp.live) => svcOp.value = "false"
    /\ svcOp.op = "dispose" =>
           /\ ~svc.isInitialized
           /\ ~svc.authManager
           /\ svc.httpClient = Null
           /\ svc.connectionTester = Null

\* A call is refused on a service that was initialized and then disposed
C30_Witness ==
    /\ svcOp.op \in GuardedOps
    /\ svcOp.error = "UNKNOWN_ERROR"
    /\ ~svcOp.live
    /\ ~svc.isInitialized
    /\ config.rate_limit # Null
    /\ svc = NoService

=============================================================================
